---------------------------- MODULE Spec2Model ----------------------------
(***************************************************************************)
(* A model of MovaParticulas: the hand-metrics extractor                   *)
(* (services/handMetrics, MetricSmoother and HandMetricsExtractor) and the *)
(* particle field simulator (components/ParticleSystem.tsx).               *)
(*                                                                         *)
(* Numbers.  A JavaScript number is modelled as a fixed-point integer: the *)
(* real value v is the integer v * SCALE, and every operation computes the *)
(* real result and rounds it once.  The three values of IEEE arithmetic    *)
(* that are not finite, NaN, Infinity and -Infinity, are three integers    *)
(* outside the range of the finite values; every arithmetic operator below *)
(* treats them as JavaScript does.  The finite range is that of the       *)
(* 32-bit integers: a sum or a product beyond it is Infinity here, where   *)
(* JavaScript still has a finite number of that sign.  Times               *)
(* (performance.now()) are integer milliseconds.                           *)
(***************************************************************************)
EXTENDS Integers, Sequences, FiniteSets, TLC

\* One unit (1.0) in fixed point: four decimal digits.
SCALE == 100 * 100

\* The non-finite numbers.  PosInf and NegInf keep their place in the order
\* of the integers, so < and > on two non-NaN numbers are those of IEEE.
PosInf == 2000 * 1000 * 1000
NegInf == 0 - PosInf
NaN == PosInf + 1

IsNaN(a) == a = NaN
IsFinite(a) == a > NegInf /\ a < PosInf
Sign(a) == IF a > 0 THEN 1 ELSE IF a < 0 THEN -1 ELSE 0
Abs(a) == IF a < 0 THEN 0 - a ELSE a

\* a / d rounded to the nearest integer, for d > 0.
RDiv(a, d) == (a + d \div 2) \div d

RECURSIVE Newton(_, _)
Newton(n, x) ==
    LET y == (x + n \div x) \div 2
    IN IF y >= x THEN x ELSE Newton(n, y)

\* The integer square root of n >= 0 (n below 2^31), by Newton's iteration
\* from a power of ten above the root.
ISqrt(n) ==
    IF n < 2 THEN n
    ELSE Newton(n, IF n < 100 THEN 10
                   ELSE IF n < 10000 THEN 100
                   ELSE IF n < 1000 * 1000 THEN 1000
                   ELSE IF n < 10000 * 10000 THEN 10000
                   ELSE 46341)

\* JavaScript's a + b, a - b.
FAdd(a, b) ==
    IF IsNaN(a) \/ IsNaN(b) THEN NaN
    ELSE IF ~IsFinite(a) /\ ~IsFinite(b) THEN (IF a = b THEN a ELSE NaN)
    ELSE IF ~IsFinite(a) THEN a
    ELSE IF ~IsFinite(b) THEN b
    ELSE IF a > 0 /\ b >= PosInf - a THEN PosInf
    ELSE IF a < 0 /\ b <= NegInf - a THEN NegInf
    ELSE a + b

FNeg(a) == IF IsNaN(a) THEN NaN ELSE 0 - a

FSub(a, b) == FAdd(a, FNeg(b))

\* The largest magnitude a product may have: beyond it the product is an
\* infinity (see the note on the range above).
Range == PosInf \div 2

\* JavaScript's a * (n / d) for a literal n / d written as two integers, d > 0.
FScale(a, n, d) ==
    IF IsNaN(a) THEN NaN
    ELSE IF ~IsFinite(a) THEN (IF n = 0 THEN NaN ELSE IF n > 0 THEN a ELSE 0 - a)
    ELSE IF n = 0 THEN 0
    ELSE IF Abs(a) <= Range \div Abs(n) THEN RDiv(a * n, d)
    ELSE IF Abs(RDiv(a, d)) <= Range \div Abs(n) THEN RDiv(a, d) * n
    ELSE IF Sign(a) * Sign(n) > 0 THEN PosInf ELSE NegInf

\* The product of two finite fixed-point numbers, the factors split so that
\* no intermediate product leaves the 32-bit integers.
MulParts(s, x, y) ==
    IF x \div SCALE > 0 /\ y > Range \div (x \div SCALE)
    THEN s * PosInf
    ELSE s * ((x \div SCALE) * y + (x % SCALE) * (y \div SCALE)
              + RDiv((x % SCALE) * (y % SCALE), SCALE))

MulFix(a, b) ==
    IF Abs(a) >= Abs(b) THEN MulParts(Sign(a) * Sign(b), Abs(a), Abs(b))
    ELSE MulParts(Sign(a) * Sign(b), Abs(b), Abs(a))

\* JavaScript's a * b.
FMul(a, b) ==
    IF IsNaN(a) \/ IsNaN(b) THEN NaN
    ELSE IF ~IsFinite(a) \/ ~IsFinite(b)
         THEN (IF a = 0 \/ b = 0 THEN NaN
               ELSE IF Sign(a) * Sign(b) > 0 THEN PosInf ELSE NegInf)
    ELSE MulFix(a, b)

\* JavaScript's a / b: a zero divisor gives NaN (0 / 0) or an infinity.
FDiv(a, b) ==
    IF IsNaN(a) \/ IsNaN(b) THEN NaN
    ELSE IF ~IsFinite(a) /\ ~IsFinite(b) THEN NaN
    ELSE IF ~IsFinite(a) THEN (IF Sign(a) * Sign(b) >= 0 THEN PosInf ELSE NegInf)
    ELSE IF ~IsFinite(b) THEN 0
    ELSE IF b = 0 THEN (IF a = 0 THEN NaN ELSE IF a > 0 THEN PosInf ELSE NegInf)
    ELSE LET q == IF Abs(a) < 200 * 1000 THEN (Abs(a) * SCALE) \div Abs(b)
                  ELSE (Abs(a) \div Abs(b)) * SCALE
                       + (((Abs(a) % Abs(b)) * 100) \div Abs(b)) * 100
         IN Sign(a) * Sign(b) * q

\* Math.min, Math.max, Math.abs: NaN if an argument is NaN.
FMin(a, b) == IF IsNaN(a) \/ IsNaN(b) THEN NaN ELSE IF a < b THEN a ELSE b
FMax(a, b) == IF IsNaN(a) \/ IsNaN(b) THEN NaN ELSE IF a > b THEN a ELSE b
FAbs(a) == IF IsNaN(a) THEN NaN ELSE Abs(a)

\* JavaScript's a > b and a < b: false if an operand is NaN.
FGt(a, b) == ~IsNaN(a) /\ ~IsNaN(b) /\ a > b
FLt(a, b) == ~IsNaN(a) /\ ~IsNaN(b) /\ a < b

\* Math.sqrt(x*x + y*y + z*z).  Components of 2.0 and more are squared at a
\* coarser resolution, so that the sum stays within the 32-bit integers.
Hypot3(x, y, z) ==
    LET m == IF Abs(x) >= Abs(y) /\ Abs(x) >= Abs(z) THEN Abs(x)
             ELSE IF Abs(y) >= Abs(z) THEN Abs(y) ELSE Abs(z)
        r == IF m < 2 * SCALE THEN 1 ELSE IF m < 200 * SCALE THEN 100 ELSE SCALE
    IN IF IsNaN(x) \/ IsNaN(y) \/ IsNaN(z) THEN NaN
       ELSE IF ~IsFinite(x) \/ ~IsFinite(y) \/ ~IsFinite(z) THEN PosInf
       ELSE IF m >= 20000 * SCALE THEN m
       ELSE r * ISqrt((Abs(x) \div r) * (Abs(x) \div r) + (Abs(y) \div r) * (Abs(y) \div r)
                      + (Abs(z) \div r) * (Abs(z) \div r))

Vec(x, y, z) == [x |-> x, y |-> y, z |-> z]

(***************************************************************************)
(* MetricSmoother: an exponential moving average per named channel.  A     *)
(* smoother is [alpha, values, vectors]; alpha is in hundredths and the    *)
(* two maps are functions whose domain is the set of channels seen.        *)
(***************************************************************************)
MetricSmoother(alpha) == [alpha |-> alpha, values |-> << >>, vectors |-> << >>]

\* A blend that gives the new value a weight of 0.1 whatever alpha is.
EmaTenth(alpha, newValue, old) ==
    IF IsFinite(newValue) /\ IsFinite(old)
    THEN RDiv(10 * newValue + 90 * old, 100)
    ELSE NaN

\* alpha * newValue + (1 - alpha) * old
Ema(alpha, newValue, old) ==
    IF IsFinite(newValue) /\ IsFinite(old)
    THEN RDiv(alpha * newValue + (100 - alpha) * old, 100)
    ELSE FAdd(FScale(newValue, alpha, 100), FScale(old, 100 - alpha, 100))

\* A smoother whose unseen channels start from 0 instead of the input.
OldValueFromZero(sm, key, newValue) ==
    IF key \in DOMAIN sm.values THEN sm.values[key] ELSE 0

\* this.values.get(key) ?? newValue
OldValue(sm, key, newValue) ==
    IF key \in DOMAIN sm.values THEN sm.values[key] ELSE newValue

\* this.vectors.get(key) ?? newVec
OldVector(sm, key, newVec) ==
    IF key \in DOMAIN sm.vectors THEN sm.vectors[key] ELSE newVec

\* The number smoothValue(key, newValue) returns and stores.
smoothValue(sm, key, newValue) == Ema(sm.alpha, newValue, OldValue(sm, key, newValue))

\* The vector smoothVector(key, newVec) returns and stores.
smoothVector(sm, key, newVec) ==
    LET old == OldVector(sm, key, newVec)
    IN Vec(Ema(sm.alpha, newVec.x, old.x), Ema(sm.alpha, newVec.y, old.y),
           Ema(sm.alpha, newVec.z, old.z))

\* The smoother after the calls that stored vals and vecs (channel :> value).
Stored(sm, vals, vecs) ==
    [sm EXCEPT !.values = vals @@ sm.values, !.vectors = vecs @@ sm.vectors]

\* MetricSmoother.reset()
SmootherReset(sm) == [sm EXCEPT !.values = << >>, !.vectors = << >>]

(***************************************************************************)
(* Landmark frames.  A frame is a sequence of 21 points; joint k of the    *)
(* HandLandmark enum is element k + 1.                                     *)
(***************************************************************************)
WRIST == 0
THUMB_TIP == 4
INDEX_FINGER_MCP == 5
INDEX_FINGER_PIP == 6
INDEX_FINGER_TIP == 8
MIDDLE_FINGER_MCP == 9
MIDDLE_FINGER_PIP == 10
MIDDLE_FINGER_TIP == 12
RING_FINGER_MCP == 13
RING_FINGER_PIP == 14
RING_FINGER_TIP == 16
PINKY_MCP == 17
PINKY_PIP == 18
PINKY_TIP == 20

Joint(lm, k) == lm[k + 1]

\* A point given in hundredths of the normalized tracking range.
P(x, y, z) == Vec(x * 100, y * 100, z * 100)

\* An open right hand in the middle of the image, fingers up, palm to the camera.
OpenHand ==
    << P(50, 80, 0),
       P(42, 74, -2), P(36, 68, -3), P(32, 62, -4), P(28, 56, -5),
       P(44, 58, -3), P(43, 50, -4), P(42, 44, -4), P(41, 38, -5),
       P(50, 56, -1), P(50, 47, -2), P(50, 40, -2), P(50, 33, -3),
       P(55, 58, 1), P(56, 50, 1), P(57, 44, 1), P(58, 38, 0),
       P(60, 61, 3), P(62, 55, 3), P(63, 50, 3), P(64, 45, 2) >>

\* The same hand closed: every tip folded back below its middle joint.
Fist ==
    << P(50, 80, 0),
       P(42, 74, -2), P(40, 68, -3), P(44, 64, -4), P(48, 62, -5),
       P(44, 58, -3), P(43, 52, -5), P(45, 55, -6), P(46, 60, -5),
       P(50, 56, -1), P(50, 50, -4), P(51, 54, -5), P(51, 60, -4),
       P(55, 58, 1), P(56, 52, -2), P(56, 56, -3), P(55, 61, -2),
       P(60, 61, 3), P(61, 56, 0), P(60, 59, -1), P(59, 63, 0) >>

\* The open hand with the thumb tip on the index tip.
Pinch == [OpenHand EXCEPT ![THUMB_TIP + 1] = OpenHand[INDEX_FINGER_TIP + 1]]

\* The open hand with the thumb tip 0.14 from the index tip: the upper edge
\* of the pinch band.
Apart ==
    [OpenHand EXCEPT ![THUMB_TIP + 1] =
        Vec(OpenHand[INDEX_FINGER_TIP + 1].x - 1400, OpenHand[INDEX_FINGER_TIP + 1].y,
            OpenHand[INDEX_FINGER_TIP + 1].z)]

\* A frame moved across the image.
Translate(lm, dx, dy) ==
    [k \in DOMAIN lm |-> Vec(lm[k].x + dx * 100, lm[k].y + dy * 100, lm[k].z)]

\* A frame mirrored left to right: the back of the hand to the camera.
MirrorX(lm) == [k \in DOMAIN lm |-> Vec(SCALE - lm[k].x, lm[k].y, lm[k].z)]

\* A frame shrunk about its wrist to pct percent: the hand far from the camera.
Shrink(lm, pct) ==
    [k \in DOMAIN lm |->
        Vec(lm[1].x + ((lm[k].x - lm[1].x) * pct) \div 100,
            lm[1].y + ((lm[k].y - lm[1].y) * pct) \div 100,
            ((lm[k].z - lm[1].z) * pct) \div 100)]

\* Every joint reported at the same point.
Coincident == [k \in 1..21 |-> P(50, 50, 0)]

\* The frames the tracker delivers in the model, by name.
FrameOf(name) ==
    CASE name = "open" -> OpenHand
      [] name = "moved" -> Translate(OpenHand, 30, -25)
      [] name = "fist" -> Fist
      [] name = "pinch" -> Pinch
      [] name = "flipped" -> MirrorX(OpenHand)
      [] name = "far" -> Shrink(OpenHand, 15)
      [] name = "coincident" -> Coincident
      [] name = "short" -> SubSeq(OpenHand, 1, 20)
      [] name = "edge" -> Apart
      [] OTHER -> << >>

HandFrames == {"open", "moved", "fist", "pinch", "flipped", "far", "coincident"}
\* "none" is the no-hand value null; "short" is a frame of 20 points.
AllFrames == HandFrames \cup {"none", "short"}

\* The frames of a hand that pinches and lets go.
PinchFrames == {"open", "fist", "pinch", "edge"}

FrameTable == [name \in AllFrames \cup PinchFrames |-> FrameOf(name)]

\* The argument rawLandmarks: null, or an array of points.
Raw(name) == [isNull |-> name = "none", pts |-> FrameTable[name]]

(***************************************************************************)
(* HandMetricsExtractor.  The object is the record                         *)
(* [smoother, fastSmoother, slowSmoother, lastPosition, lastTime, energy]. *)
(***************************************************************************)
ENERGY_DECAY == 97      \* hundredths
ENERGY_GAIN == 20       \* hundredths
REF_HAND_SIZE == 2500   \* 0.25
DEPTH_SCALE == 3
DefaultDeltaTime == 160 \* 0.016 s

NewExtractor ==
    [smoother |-> MetricSmoother(35),
     fastSmoother |-> MetricSmoother(60),
     slowSmoother |-> MetricSmoother(15),
     lastPosition |-> Vec(0, 0, 0),
     lastTime |-> 0,
     energy |-> 0]

distance3D(a, b) == Hypot3(a.x - b.x, a.y - b.y, a.z - b.z)

normalize(v) ==
    LET len == Hypot3(v.x, v.y, v.z)
    IN IF len = 0 THEN Vec(0, 0, SCALE)
       ELSE Vec(FDiv(v.x, len), FDiv(v.y, len), FDiv(v.z, len))

\* calculateFingerCurl for the thumb.
ThumbCurl(lm) ==
    LET dist == distance3D(Joint(lm, THUMB_TIP), Joint(lm, INDEX_FINGER_MCP))
    IN FSub(SCALE, FMin(SCALE, FDiv(dist, 1500)))

\* calculateFingerCurl for a finger given by its mcp, pip and tip joints.
FingerCurl(lm, mcp, pip, tip) ==
    LET wrist == Joint(lm, WRIST)
        mcpToWrist == distance3D(Joint(lm, mcp), wrist)
        tipToWrist == distance3D(Joint(lm, tip), wrist)
        curl == FSub(SCALE, FMin(SCALE, FDiv(tipToWrist, FScale(mcpToWrist, 13, 10))))
        yFactor == IF Joint(lm, tip).y > Joint(lm, pip).y THEN 3000 ELSE 0
    IN FMin(SCALE, FMax(0, FAdd(curl, yFactor)))

calculateFingerCurl(lm, finger) ==
    CASE finger = "thumb" -> ThumbCurl(lm)
      [] finger = "index" ->
            FingerCurl(lm, INDEX_FINGER_MCP, INDEX_FINGER_PIP, INDEX_FINGER_TIP)
      [] finger = "middle" ->
            FingerCurl(lm, MIDDLE_FINGER_MCP, MIDDLE_FINGER_PIP, MIDDLE_FINGER_TIP)
      [] finger = "ring" ->
            FingerCurl(lm, RING_FINGER_MCP, RING_FINGER_PIP, RING_FINGER_TIP)
      [] finger = "pinky" -> FingerCurl(lm, PINKY_MCP, PINKY_PIP, PINKY_TIP)
      [] OTHER -> 0

calculateFingerSpread(lm) ==
    LET d1 == distance3D(Joint(lm, INDEX_FINGER_TIP), Joint(lm, MIDDLE_FINGER_TIP))
        d2 == distance3D(Joint(lm, MIDDLE_FINGER_TIP), Joint(lm, RING_FINGER_TIP))
        d3 == distance3D(Joint(lm, RING_FINGER_TIP), Joint(lm, PINKY_TIP))
        avgDist == RDiv(d1 + d2 + d3, 3)
    IN FMin(SCALE, FMax(0, FDiv(avgDist - 200, 800)))

calculatePalmNormal(lm) ==
    LET wrist == Joint(lm, WRIST)
        indexMcp == Joint(lm, INDEX_FINGER_MCP)
        pinkyMcp == Joint(lm, PINKY_MCP)
        middleMcp == Joint(lm, MIDDLE_FINGER_MCP)
        v1 == Vec(indexMcp.x - pinkyMcp.x, indexMcp.y - pinkyMcp.y, indexMcp.z - pinkyMcp.z)
        v2 == Vec(middleMcp.x - wrist.x, middleMcp.y - wrist.y, middleMcp.z - wrist.z)
        \* The cross product, kept at the resolution of a product of two
        \* coordinates: normalize divides the scale out again.
        normal == Vec(v1.y * v2.z - v1.z * v2.y,
                      v1.z * v2.x - v1.x * v2.z,
                      v1.x * v2.y - v1.y * v2.x)
        m == IF Abs(normal.x) >= Abs(normal.y) /\ Abs(normal.x) >= Abs(normal.z)
             THEN Abs(normal.x)
             ELSE IF Abs(normal.y) >= Abs(normal.z) THEN Abs(normal.y) ELSE Abs(normal.z)
        r == IF m < 20 * SCALE THEN 1 ELSE IF m < 2000 * SCALE THEN 100 ELSE SCALE
    IN normalize(Vec(normal.x \div r, normal.y \div r, normal.z \div r))

getEmptyMetrics(energy) ==
    [isPresent |-> FALSE,
     confidence |-> 0,
     position |-> Vec(0, 0, 0),
     velocity |-> Vec(0, 0, 0),
     speed |-> 0,
     openness |-> 6000,
     pinchStrength |-> 0,
     pinchPosition |-> Vec(0, 0, 0),
     fingerSpread |-> 0,
     palmNormal |-> Vec(0, 0, SCALE),
     palmFacingCamera |-> SCALE,
     palmTilt |-> 0,
     thumbCurl |-> 0,
     indexCurl |-> 0,
     middleCurl |-> 0,
     ringCurl |-> 0,
     pinkyCurl |-> 0,
     pointDirection |-> Vec(0, 0 - SCALE, 0),
     pointStrength |-> 0,
     gripStrength |-> 0,
     energy |-> energy,
     tension |-> 0,
     expressiveness |-> 0,
     depth |-> 0,
     handSize |-> 0,
     landmarks |-> << >>]

\* A no-hand branch that also clears the smoothers.
extractNoHandCleared(e, now, decayed) ==
    [ext |-> [e EXCEPT !.smoother = SmootherReset(e.smoother),
                       !.fastSmoother = SmootherReset(e.fastSmoother),
                       !.slowSmoother = SmootherReset(e.slowSmoother),
                       !.lastTime = now, !.energy = decayed],
     out |-> getEmptyMetrics(decayed)]

\* A no-hand branch that zeroes the energy instead of carrying it.
extractNoHandZeroed(e, now, decayed) ==
    [ext |-> [e EXCEPT !.lastTime = now, !.energy = 0],
     out |-> getEmptyMetrics(0)]

\* extract's no-hand branch: the energy has decayed, the empty metrics carry it.
extractNoHand(e, now, decayed) ==
    [ext |-> [e EXCEPT !.lastTime = now, !.energy = decayed],
     out |-> getEmptyMetrics(decayed)]

\* this.energy *= ENERGY_DECAY
Decayed(e) == FScale(e.energy, ENERGY_DECAY, 100)

\* const dt = this.lastTime > 0 ? (now - this.lastTime) / 1000 : deltaTime
ElapsedTime(e, now, deltaTime) ==
    IF e.lastTime > 0 THEN (now - e.lastTime) * 10 ELSE deltaTime

\* === DEPTH ===: the smoothed depth for the smoothed hand size.
DepthOf(e, handSize) ==
    smoothValue(e.smoother, "depth",
        FScale(FSub(FDiv(REF_HAND_SIZE, FMax(500, handSize)), SCALE), DEPTH_SCALE, 1))

\* === POSITION ===
PositionOf(e, wrist, depth) ==
    smoothVector(e.smoother, "pos",
        Vec((wrist.x - 5000) * 2, (0 - (wrist.y - 5000)) * 2, depth))

\* === VELOCITY ===
VelocityOf(e, position, dt) ==
    smoothVector(e.smoother, "vel",
        Vec(FDiv(FSub(position.x, e.lastPosition.x), dt),
            FDiv(FSub(position.y, e.lastPosition.y), dt),
            FDiv(FSub(position.z, e.lastPosition.z), dt)))

SpeedOf(velocity) == FMin(SCALE, FScale(Hypot3(velocity.x, velocity.y, 0), 1, 10))

\* The hand size, depth, position, velocity and raw speed of a frame.
MotionMetrics(e, lm, dt) ==
    LET handSize == smoothValue(e.slowSmoother, "handSize",
                        distance3D(Joint(lm, WRIST), Joint(lm, MIDDLE_FINGER_MCP)))
        depth == DepthOf(e, handSize)
        position == PositionOf(e, Joint(lm, WRIST), depth)
        velocity == VelocityOf(e, position, dt)
    IN [handSize |-> handSize, depth |-> depth, position |-> position,
        velocity |-> velocity, speed |-> SpeedOf(velocity)]

\* === FINGER CURLS ===
CurlMetrics(e, lm) ==
    [thumb |-> smoothValue(e.smoother, "thumbCurl", calculateFingerCurl(lm, "thumb")),
     index |-> smoothValue(e.smoother, "indexCurl", calculateFingerCurl(lm, "index")),
     middle |-> smoothValue(e.smoother, "middleCurl", calculateFingerCurl(lm, "middle")),
     ring |-> smoothValue(e.smoother, "ringCurl", calculateFingerCurl(lm, "ring")),
     pinky |-> smoothValue(e.smoother, "pinkyCurl", calculateFingerCurl(lm, "pinky"))]

CurlSum(curls) == FAdd(FAdd(curls.index, curls.middle), FAdd(curls.ring, curls.pinky))

\* === OPENNESS ===
OpennessOf(e, curls) ==
    smoothValue(e.slowSmoother, "openness", FSub(SCALE, FScale(CurlSum(curls), 1, 4)))

\* A pinch band that ends at 0.22 instead of 0.14.
RawPinchWideBand(pinchDist) ==
    FSub(SCALE, FMin(SCALE, FMax(0, FDiv(pinchDist - 200, 2000))))

\* === PINCH ===: the raw strength for a thumb-to-index distance.
RawPinchStrength(pinchDist) ==
    FSub(SCALE, FMin(SCALE, FMax(0, FDiv(pinchDist - 200, 1200))))

PinchOf(e, thumbTip, indexTip, rawPinchStrength) ==
    [raw |-> rawPinchStrength,
     strength |-> smoothValue(e.fastSmoother, "pinch", rawPinchStrength),
     position |-> smoothVector(e.smoother, "pinchPos",
                      Vec(thumbTip.x + indexTip.x - SCALE,
                          0 - (thumbTip.y + indexTip.y - SCALE),
                          thumbTip.z + indexTip.z))]

PinchMetrics(e, lm) ==
    PinchOf(e, Joint(lm, THUMB_TIP), Joint(lm, INDEX_FINGER_TIP),
            RawPinchStrength(distance3D(Joint(lm, THUMB_TIP), Joint(lm, INDEX_FINGER_TIP))))

\* A palm orientation whose tilt goes through the slow smoother.
PalmOfSlowTilt(e, palmNormal) ==
    [normal |-> smoothVector(e.smoother, "palmNormal", palmNormal),
     facingCamera |-> smoothValue(e.slowSmoother, "palmFacing",
                          IF FGt(palmNormal.z, 0) THEN SCALE ELSE 0 - SCALE),
     tilt |-> smoothValue(e.slowSmoother, "palmTilt", palmNormal.x)]

\* === PALM ORIENTATION ===
PalmOf(e, palmNormal) ==
    [normal |-> smoothVector(e.smoother, "palmNormal", palmNormal),
     facingCamera |-> smoothValue(e.slowSmoother, "palmFacing",
                          IF FGt(palmNormal.z, 0) THEN SCALE ELSE 0 - SCALE),
     tilt |-> smoothValue(e.smoother, "palmTilt", palmNormal.x)]

PalmMetrics(e, lm) == PalmOf(e, calculatePalmNormal(lm))

\* === POINTING ===
PointDirectionOf(e, indexTip, indexMcp) ==
    smoothVector(e.smoother, "pointDir",
        normalize(Vec(indexTip.x - indexMcp.x, 0 - (indexTip.y - indexMcp.y),
                      indexTip.z - indexMcp.z)))

PointStrengthOf(e, curls) ==
    smoothValue(e.smoother, "pointStr",
        FScale(FMul(FSub(SCALE, curls.index),
                    FAdd(FAdd(curls.middle, curls.ring), curls.pinky)), 1, 3))

\* === GRIP ===: the raw grip strength.
GripOf(curls, pinch) ==
    FMul(FScale(CurlSum(curls), 1, 4), FSub(SCALE, FScale(pinch.raw, 1, 2)))

\* === DERIVED METRICS ===
TensionOf(e, pinch, gripStrength, openness) ==
    smoothValue(e.slowSmoother, "tension",
        FMax(FMax(pinch.strength, gripStrength), FScale(FAbs(FSub(openness, 5000)), 2, 1)))

ExpressivenessOf(e, pinch, openness, pointStrength, speed) ==
    smoothValue(e.smoother, "expr",
        FMin(SCALE,
             FAdd(FAdd(FAbs(FSub(openness, 6000)), FScale(pinch.strength, 3, 10)),
                  FAdd(FScale(pointStrength, 3, 10), FScale(speed, 4, 10)))))

\* landmarks.map(...)
NormalizedLandmarks(lm) ==
    [k \in DOMAIN lm |->
        Vec((lm[k].x - 5000) * 2, (0 - (lm[k].y - 5000)) * 2, lm[k].z * 2)]

\* The extractor extract leaves and the metrics it returns, from the values
\* it has computed and smoothed.
extractResult(e, lm, now, motion, curls, pinch, palm, openness, spread, pointDirection, pointStrength, grip, tension, expressiveness, speed, energy) ==
    [ext |->
        [smoother |->
            Stored(e.smoother,
                ("depth" :> motion.depth) @@ ("thumbCurl" :> curls.thumb)
                @@ ("indexCurl" :> curls.index) @@ ("middleCurl" :> curls.middle)
                @@ ("ringCurl" :> curls.ring) @@ ("pinkyCurl" :> curls.pinky)
                @@ ("spread" :> spread) @@ ("palmTilt" :> palm.tilt)
                @@ ("pointStr" :> pointStrength) @@ ("grip" :> grip)
                @@ ("expr" :> expressiveness) @@ ("speed" :> speed),
                ("pos" :> motion.position) @@ ("vel" :> motion.velocity)
                @@ ("pinchPos" :> pinch.position) @@ ("palmNormal" :> palm.normal)
                @@ ("pointDir" :> pointDirection)),
         fastSmoother |-> Stored(e.fastSmoother, "pinch" :> pinch.strength, << >>),
         slowSmoother |->
            Stored(e.slowSmoother,
                ("handSize" :> motion.handSize) @@ ("openness" :> openness)
                @@ ("palmFacing" :> palm.facingCamera) @@ ("tension" :> tension),
                << >>),
         lastPosition |-> motion.position,
         lastTime |-> now,
         energy |-> energy],
     out |->
        [isPresent |-> TRUE,
         confidence |-> 9000,
         position |-> motion.position,
         velocity |-> motion.velocity,
         speed |-> speed,
         openness |-> openness,
         pinchStrength |-> pinch.strength,
         pinchPosition |-> pinch.position,
         fingerSpread |-> spread,
         palmNormal |-> palm.normal,
         palmFacingCamera |-> palm.facingCamera,
         palmTilt |-> palm.tilt,
         thumbCurl |-> curls.thumb,
         indexCurl |-> curls.index,
         middleCurl |-> curls.middle,
         ringCurl |-> curls.ring,
         pinkyCurl |-> curls.pinky,
         pointDirection |-> pointDirection,
         pointStrength |-> pointStrength,
         gripStrength |-> grip,
         energy |-> energy,
         tension |-> tension,
         expressiveness |-> expressiveness,
         depth |-> motion.depth,
         handSize |-> motion.handSize,
         landmarks |-> NormalizedLandmarks(lm)]]

\* extract from the derived metrics on: grip, tension, expressiveness, the
\* smoothed speed and the energy.
extractDerived(e, lm, now, decayed, motion, curls, pinch, palm, openness, pointStrength, gripStrength) ==
    extractResult(e, lm, now, motion, curls, pinch, palm, openness,
        smoothValue(e.smoother, "spread", calculateFingerSpread(lm)),
        PointDirectionOf(e, Joint(lm, INDEX_FINGER_TIP), Joint(lm, INDEX_FINGER_MCP)),
        pointStrength,
        smoothValue(e.smoother, "grip", gripStrength),
        TensionOf(e, pinch, gripStrength, openness),
        ExpressivenessOf(e, pinch, openness, pointStrength, motion.speed),
        smoothValue(e.smoother, "speed", motion.speed),
        FMin(SCALE, FAdd(decayed, FScale(motion.speed, ENERGY_GAIN, 100))))

\* extract with a hand, from the groups of metrics computed from the frame.
extractMeasured(e, lm, now, decayed, motion, curls, pinch, palm) ==
    extractDerived(e, lm, now, decayed, motion, curls, pinch, palm,
                   OpennessOf(e, curls), PointStrengthOf(e, curls), GripOf(curls, pinch))

\* extract's branch for a frame of 21 landmarks.
extractHand(e, lm, now, dt, decayed) ==
    extractMeasured(e, lm, now, decayed, MotionMetrics(e, lm, dt), CurlMetrics(e, lm),
                    PinchMetrics(e, lm), PalmMetrics(e, lm))

\* extract(rawLandmarks, deltaTime) at performance.now() = now (ms), on the
\* extractor e: the extractor it leaves and the metrics it returns.
extract(e, raw, now, deltaTime) ==
    IF raw.isNull \/ Len(raw.pts) < 21
    THEN extractNoHand(e, now, Decayed(e))
    ELSE extractHand(e, raw.pts, now, ElapsedTime(e, now, deltaTime), Decayed(e))

\* A reset that forgets the fast and the slow smoother.
extractorResetDefaultOnly(e) ==
    [e EXCEPT !.smoother = SmootherReset(e.smoother), !.energy = 0]

\* HandMetricsExtractor.reset()
extractorReset(e) ==
    [e EXCEPT !.smoother = SmootherReset(e.smoother),
              !.fastSmoother = SmootherReset(e.fastSmoother),
              !.slowSmoother = SmootherReset(e.slowSmoother),
              !.energy = 0]

(***************************************************************************)
(* GestureDetector.detectGesture, from the finger states getFingerStates   *)
(* returns (thumb, index, middle, ring, pinky) and the flag isPinching     *)
(* returns.                                                                *)
(***************************************************************************)
GestureTypes == {"none", "open_palm", "fist", "pinch", "peace", "point", "rock",
                 "thumbs_up", "spiderman"}

\* fingers.filter(f => f).length
ExtendedCount(fingers) == Cardinality({k \in 1..5 : fingers[k]})

detectGesture(fingers, isPinch) ==
    LET thumb == fingers[1]
        index == fingers[2]
        middle == fingers[3]
        ring == fingers[4]
        pinky == fingers[5]
    IN IF isPinch /\ ~middle /\ ~ring /\ ~pinky
       THEN [gesture |-> "pinch", confidence |-> 9500]
       ELSE IF \/ ExtendedCount(fingers) = 0
               \/ (ExtendedCount(fingers) = 1 /\ thumb /\ ~index /\ ~middle /\ ~ring
                                              /\ ~pinky)
       THEN [gesture |-> "fist", confidence |-> 9000]
       ELSE IF thumb /\ index /\ middle /\ ring /\ pinky
       THEN [gesture |-> "open_palm", confidence |-> 9500]
       ELSE IF index /\ ~middle /\ ~ring /\ ~pinky
       THEN [gesture |-> "point", confidence |-> 9000]
       ELSE IF index /\ middle /\ ~ring /\ ~pinky
       THEN [gesture |-> "peace", confidence |-> 9000]
       ELSE IF index /\ ~middle /\ ~ring /\ pinky
       THEN [gesture |-> "rock", confidence |-> 9000]
       ELSE IF thumb /\ ~index /\ ~middle /\ ~ring /\ ~pinky
       THEN [gesture |-> "thumbs_up", confidence |-> 8500]
       ELSE IF thumb /\ index /\ ~middle /\ ~ring /\ pinky
       THEN [gesture |-> "spiderman", confidence |-> 9000]
       ELSE [gesture |-> "none", confidence |-> 3000]

(***************************************************************************)
(* The functions of Math the simulator and the geometry sampler use, in    *)
(* fixed point.  Each is the real function to within 3 units of the third  *)
(* decimal digit.                                                          *)
(***************************************************************************)
\* Math.PI, 2 * Math.PI and Math.PI / 2.
Pi == 31416
TwoPi == 2 * Pi
HalfPi == Pi \div 2

\* sin(a) for 0 <= a <= Pi: 16 a (Pi - a) / (5 Pi^2 - 4 a (Pi - a)).
SinHalfTurn(a) ==
    LET q == (a * (Pi - a)) \div 1000
    IN RDiv(1600 * q, ((5 * ((Pi * Pi) \div 1000)) - 4 * q) \div 100)

\* Math.sin(x): the argument reduced to one turn.
Sin(x) ==
    IF ~IsFinite(x) THEN NaN
    ELSE LET r == x % TwoPi
         IN IF r <= Pi THEN SinHalfTurn(r) ELSE 0 - SinHalfTurn(r - Pi)

\* Math.cos(x)
Cos(x) == IF ~IsFinite(x) THEN NaN ELSE Sin(x + HalfPi)

RECURSIVE AcosBisect(_, _, _)
AcosBisect(c, lo, hi) ==
    IF hi - lo <= 1 THEN lo
    ELSE LET mid == (lo + hi) \div 2
         IN IF Cos(mid) > c THEN AcosBisect(c, mid, hi) ELSE AcosBisect(c, lo, mid)

\* Math.acos(c): the angle in [0, Pi] whose cosine is c, NaN outside [-1, 1].
Acos(c) ==
    IF IsNaN(c) \/ c > SCALE \/ c < 0 - SCALE THEN NaN
    ELSE IF c = SCALE THEN 0
    ELSE IF c = 0 - SCALE THEN Pi
    ELSE AcosBisect(c, 0, Pi)

RECURSIVE CbrtBisect(_, _, _)
CbrtBisect(n, lo, hi) ==
    IF hi - lo <= 1 THEN lo
    ELSE LET mid == (lo + hi) \div 2
         IN IF mid * mid * mid <= n THEN CbrtBisect(n, mid, hi) ELSE CbrtBisect(n, lo, mid)

\* Math.cbrt(u) for 0 <= u <= 1: the integer cube root of u at three digits.
Cbrt(u) == 10 * CbrtBisect((u \div 10) * 1000 * 1000, 0, 1001)

\* Math.sqrt(u) for u >= 0.
Sqrt(u) ==
    IF IsNaN(u) \/ u < 0 THEN NaN
    ELSE IF u = PosInf THEN PosInf
    ELSE IF u < 200 * 1000 THEN ISqrt(u * SCALE)
    ELSE 100 * ISqrt(u)

RECURSIVE Pow2Int(_)
Pow2Int(n) == IF n = 0 THEN 1 ELSE 2 * Pow2Int(n - 1)

\* 2^f for 0 <= f < 1: the series of e^(f ln 2) to the fourth power.
Pow2Frac(f) ==
    LET f2 == MulFix(f, f)
        f3 == MulFix(f2, f)
        f4 == MulFix(f3, f)
    IN SCALE + RDiv(6931 * f, SCALE) + RDiv(2402 * f2, SCALE)
             + RDiv(555 * f3, SCALE) + RDiv(96 * f4, SCALE)

\* Math.pow(2, y).  Above 2^17 the result leaves the fixed-point range and
\* is Infinity here; the simulator only takes the sign of what it makes of it.
Pow2(y) ==
    IF IsNaN(y) THEN NaN
    ELSE IF y = PosInf THEN PosInf
    ELSE IF y = NegInf THEN 0
    ELSE LET n == y \div SCALE
             f == y % SCALE
         IN IF n >= 17 THEN PosInf
            ELSE IF n >= 0 THEN Pow2Int(n) * Pow2Frac(f)
            ELSE IF n < 0 - 20 THEN 0
            ELSE RDiv(Pow2Frac(f), Pow2Int(0 - n))

\* x * x * x and Math.pow(x, 4).
Cube(x) == FMul(FMul(x, x), x)
Pow4(x) == FMul(FMul(x, x), FMul(x, x))

(***************************************************************************)
(* generateGeometry.  The simulator is followed at one particle index, so  *)
(* a Float32Array of points is modelled by its length and the point it     *)
(* holds at that index: [length, at].  Math.random() is modelled by a draw *)
(* stream rs, a sequence of numbers of [0, 1) read in the order of the     *)
(* calls made for one point.                                               *)
(***************************************************************************)
PARTICLE_COUNT == 8000
RADIUS == 36000

Shapes == {"Sphere", "Heart", "Galaxy", "Flower", "Entity"}

\* What the elements read past the end of a typed array (undefined) are
\* once they enter arithmetic.
OutOfRange == Vec(NaN, NaN, NaN)

\* case ParticleShape.SPHERE
SpherePoint(rs) ==
    LET theta == FScale(rs[1], TwoPi, SCALE)
        phi == Acos(2 * rs[2] - SCALE)
        r == FMul(RADIUS, Cbrt(rs[3]))
    IN Vec(FMul(FMul(r, Sin(phi)), Cos(theta)),
           FMul(FMul(r, Sin(phi)), Sin(theta)),
           FMul(r, Cos(phi)))

\* case ParticleShape.HEART
HeartPoint(rs) ==
    LET t == FScale(rs[1], TwoPi, SCALE)
        u == rs[2]
        hx == 16 * Cube(Sin(t))
        hy == 13 * Cos(t) - 5 * Cos(2 * t) - 2 * Cos(3 * t) - Cos(4 * t)
        scale == FScale(Cbrt(u), 25, 100)
    IN Vec(FMul(hx, scale),
           FMul(hy, scale),
           FMul((rs[3] - SCALE \div 2) * 2, scale) * 5)

\* Math.pow(Math.random(), 3) * (Math.random() < 0.5 ? 1 : -1) * 0.5
GalaxyScatter(r, s) ==
    FScale(Cube(r) * (IF s < SCALE \div 2 THEN 1 ELSE -1), 5, 10)

\* case ParticleShape.GALAXY
GalaxyPoint(i, count, rs) ==
    LET arms == 5
        spin == RDiv(i * arms * SCALE, count)
        branchAngle == FScale(RDiv((i % arms) * SCALE, arms), TwoPi, SCALE)
        radius == FScale(FMul(rs[1], RADIUS), 15, 10)
        randomX == GalaxyScatter(rs[2], rs[3])
        randomY == GalaxyScatter(rs[4], rs[5])
        randomZ == GalaxyScatter(rs[6], rs[7])
    IN Vec(FMul(Cos(branchAngle + spin * 3), radius) + randomX,
           randomY * 2,
           FMul(Sin(branchAngle + spin * 3), radius) + randomZ)

\* case ParticleShape.FLOWER
FlowerPoint(i, count) ==
    LET phi == 24000
        denom == IF count - 1 > 1 THEN count - 1 ELSE 1
        yPos == SCALE - RDiv(i * 2 * SCALE, denom)
        radius == FMul(Sqrt(SCALE - MulFix(yPos, yPos)), RADIUS)
        theta == phi * i
        x == FMul(Cos(theta), radius)
        z == FMul(Sin(theta), radius)
        warp == FScale(Sin(theta * 5), 5, 10)
    IN Vec(FAdd(x, FScale(FMul(x, warp), 2, 10)),
           FMul(yPos, RADIUS),
           FAdd(z, FScale(FMul(z, warp), 2, 10)))

\* case ParticleShape.ENTITY
EntityPoint(rs) ==
    LET rnd == rs[1]
    IN IF rnd < 2000
       THEN LET r == 8000
                theta == FScale(rs[2], TwoPi, SCALE)
                phi == Acos(2 * rs[3] - SCALE)
            IN Vec(FMul(FMul(r, Sin(phi)), Cos(theta)),
                   FMul(FMul(r, Sin(phi)), Sin(theta)) + 25000,
                   FMul(r, Cos(phi)))
       ELSE IF rnd < 6000
       THEN LET h == 25000
                r == FScale(Sqrt(rs[2]), 12, 10)
                theta == FScale(rs[3], TwoPi, SCALE)
                yPos == FMul(rs[4] - SCALE \div 2, h) + SCALE
            IN Vec(FMul(r, Cos(theta)), yPos, FMul(r, Sin(theta)))
       ELSE LET r == FScale(Sqrt(rs[2]), 25, 10)
                theta == FScale(rs[3], TwoPi, SCALE)
            IN Vec(FMul(r, Cos(theta)),
                   FScale(rs[4] - SCALE \div 2, 8, 10) - SCALE \div 2,
                   FMul(r, Sin(theta)))

\* The point generateGeometry's loop computes for index i.
GeometryPoint(shape, i, count, rs) ==
    CASE shape = "Sphere" -> SpherePoint(rs)
      [] shape = "Heart" -> HeartPoint(rs)
      [] shape = "Galaxy" -> GalaxyPoint(i, count, rs)
      [] shape = "Flower" -> FlowerPoint(i, count)
      [] shape = "Entity" -> EntityPoint(rs)

\* generateGeometry(shape, count), seen at index i: an array of count * 3
\* numbers.
generateGeometry(shape, count, i, rs) ==
    [length |-> count * 3,
     at |-> IF i < count THEN GeometryPoint(shape, i, count, rs) ELSE OutOfRange]

(***************************************************************************)
(* ParticleSystem: the functions of the frame update.  Times are seconds   *)
(* in fixed point; a target is a Vec, followed through the force terms in  *)
(* the order of the code.                                                  *)
(***************************************************************************)
COUNT == 15000
TRANSITION_DURATION == 15000

\* array[i * 3], array[i * 3 + 1], array[i * 3 + 2] as numbers.
ReadPoint(array, i) == IF i * 3 + 2 < array.length THEN array.at ELSE OutOfRange

easeOutExpo(t) ==
    IF t = SCALE THEN SCALE ELSE FSub(SCALE, Pow2(FScale(t, 0 - 10, 1)))

easeInOutQuart(t) ==
    IF FLt(t, SCALE \div 2)
    THEN FScale(Pow4(t), 8, 1)
    ELSE FSub(SCALE, FScale(Pow4(FAdd(FScale(t, 0 - 2, 1), 2 * SCALE)), 1, 2))

\* The transition block of useFrame at clock time `time`: the progress it
\* stores and reports, the two factors, the flash, and whether it ends the
\* transition.
TransitionStep(transition, time) ==
    LET elapsed == FSub(time, transition.startTime)
        progress == FMin(SCALE, FDiv(elapsed, TRANSITION_DURATION))
    IN [progress |-> progress,
        transitionFactor |-> easeInOutQuart(progress),
        ejectionFactor |-> FMul(FMax(0, FSub(SCALE, FDiv(elapsed, 5000))),
                                easeOutExpo(FScale(elapsed, 3, 1))),
        flashIntensity |-> FMax(0, FSub(SCALE, FDiv(elapsed, 3000))),
        done |-> ~IsNaN(progress) /\ progress >= SCALE]

\* === PHYSICS PARAMETERS ===
PhysicsParameters(m, isTransitioning, transitionFactor) ==
    LET baseLerp == IF m.isPresent THEN 600 ELSE 300
    IN [transitionLerp |-> IF isTransitioning
                           THEN FAdd(800, FScale(transitionFactor, 4, 100))
                           ELSE baseLerp,
        baseDamping |-> FSub(FAdd(9000, FScale(m.openness, 5, 100)),
                             FScale(m.gripStrength, 8, 100)),
        hand |-> Vec(FScale(m.position.x, 5, 1), FScale(m.position.y, 5, 1),
                     FScale(m.position.z, 3, 1)),
        pinch |-> Vec(FScale(m.pinchPosition.x, 5, 1), FScale(m.pinchPosition.y, 5, 1),
                      FScale(m.pinchPosition.z, 3, 1)),
        expansionFactor |-> FAdd(3000, FScale(m.openness, 12, 10)),
        turbulence |-> FAdd(FScale(m.fingerSpread, 5, 10), FScale(m.energy, 3, 10)),
        vortexStrength |-> FScale(m.gripStrength, 2, 1),
        driftX |-> FScale(FMul(m.palmTilt, m.expressiveness), 5, 10),
        driftY |-> FScale(FMul(m.palmNormal.y, m.expressiveness), 3, 10)]

\* a * (1 - mix) + b * mix
Mix(a, b, mix) == FAdd(FMul(a, FSub(SCALE, mix)), FMul(b, mix))

\* === INTERPOLATE TARGETS DURING TRANSITION ===
InterpolateTarget(t, prev, ejection, step, time, phase, seed) ==
    LET f == step.transitionFactor
        lerp == Vec(FAdd(prev.x, FMul(FSub(t.x, prev.x), f)),
                    FAdd(prev.y, FMul(FSub(t.y, prev.y), f)),
                    FAdd(prev.z, FMul(FSub(t.z, prev.z), f)))
        e == step.ejectionFactor
        ejected == IF FGt(e, 0)
                   THEN Vec(FAdd(lerp.x, FScale(FMul(ejection.x, e), 3, 1)),
                            FAdd(lerp.y, FScale(FMul(ejection.y, e), 3, 1)),
                            FAdd(lerp.z, FScale(FMul(ejection.z, e), 3, 1)))
                   ELSE lerp
        swirlPhase == FAdd(phase, FScale(time, 3, 1))
        swirlRadius == FScale(FSub(SCALE, f), 2, 1)
    IN Vec(FAdd(ejected.x, FMul(FMul(Cos(swirlPhase), swirlRadius), seed.x)),
           ejected.y,
           FAdd(ejected.z, FMul(FMul(Sin(swirlPhase), swirlRadius), seed.z)))

\* === BREATHING ANIMATION ===
Breathing(t, m, time, phase, seed) ==
    LET breath == FMul(FScale(Sin(FAdd(FScale(time, 6, 10), phase)), 8, 100),
                       FSub(SCALE, m.tension))
    IN Vec(FAdd(t.x, FMul(seed.x, breath)), FAdd(t.y, FMul(seed.y, breath)),
           FAdd(t.z, FMul(seed.z, breath)))

\* === 1. EXPANSION/CONTRACTION ===
Expansion(t, pp) ==
    LET targetDist == Hypot3(t.x, t.y, t.z)
        scale == FDiv(FMul(targetDist, pp.expansionFactor), targetDist)
    IN IF FGt(targetDist, 1000)
       THEN Vec(FMul(t.x, scale), FMul(t.y, scale), FMul(t.z, scale))
       ELSE t

\* A pinch attraction that starts at the threshold itself.
PinchAttractionFromThreshold(t, p, m, pp, time, phase) ==
    IF m.pinchStrength >= 2000 /\ IsFinite(m.pinchStrength)
    THEN Vec(Mix(t.x, pp.pinch.x, 3000), Mix(t.y, pp.pinch.y, 3000),
             Mix(t.z, pp.pinch.z, 3000))
    ELSE t

\* === 2. PINCH ATTRACTION ===
PinchAttraction(t, p, m, pp, time, phase) ==
    LET distToPinch == Hypot3(FSub(p.x, pp.pinch.x), FSub(p.y, pp.pinch.y),
                              FSub(p.z, pp.pinch.z))
        attractionForce == FDiv(FScale(m.pinchStrength, 3, 1), FMax(5000, distToPinch))
        attractMix == FMin(SCALE, FScale(attractionForce, 3, 10))
        a == Vec(Mix(t.x, pp.pinch.x, attractMix), Mix(t.y, pp.pinch.y, attractMix),
                 Mix(t.z, pp.pinch.z, attractMix))
        spiralAngle == FAdd(FScale(time, 4, 1), phase)
        spiralRadius == FScale(distToPinch, 3, 10)
    IN IF FGt(m.pinchStrength, 2000)
       THEN IF FLt(distToPinch, 2 * SCALE) /\ FGt(m.pinchStrength, 5000)
            THEN Vec(FAdd(a.x, FMul(FMul(Cos(spiralAngle), spiralRadius), m.pinchStrength)),
                     a.y,
                     FAdd(a.z, FMul(FMul(Sin(spiralAngle), spiralRadius), m.pinchStrength)))
            ELSE a
       ELSE t

\* === 3. VORTEX/ROTATION (GRIP) ===
Vortex(t, distToHand, m, pp, time, phase) ==
    LET proximity == FSub(SCALE, FDiv(distToHand, 8 * SCALE))
        angle == FMul(FMul(time, pp.vortexStrength), proximity)
        cosA == Cos(FScale(angle, 1, 10))
        sinA == Sin(FScale(angle, 1, 10))
        relX == FSub(t.x, pp.hand.x)
        relZ == FSub(t.z, pp.hand.z)
    IN IF FGt(m.gripStrength, 1000) /\ FLt(distToHand, 8 * SCALE)
       THEN Vec(FSub(FAdd(pp.hand.x, FMul(relX, cosA)), FMul(relZ, sinA)),
                FAdd(t.y, FScale(FMul(FMul(Sin(FAdd(angle, phase)), proximity),
                                      m.gripStrength), 5, 10)),
                FAdd(FAdd(pp.hand.z, FMul(relX, sinA)), FMul(relZ, cosA)))
       ELSE t

\* === 4. TURBULENCE (FINGER SPREAD) ===
Turbulence(t, m, pp, time, phase, seed) ==
    LET turbFreq == FAdd(3 * SCALE, FScale(m.energy, 5, 1))
        base == FMul(time, turbFreq)
        ph == FScale(phase, 5, 1)
    IN IF FGt(pp.turbulence, 1000)
       THEN Vec(FAdd(t.x, FMul(FMul(Sin(FAdd(base, ph)), pp.turbulence), seed.x)),
                FAdd(t.y, FMul(FMul(Cos(FAdd(FScale(base, 11, 10), ph)), pp.turbulence),
                               seed.y)),
                FAdd(t.z, FMul(FMul(Sin(FAdd(FScale(base, 9, 10), ph)), pp.turbulence),
                               seed.z)))
       ELSE t

\* === 5. DIRECTIONAL FLOW ===
DirectionalFlow(t, pp) == Vec(FAdd(t.x, pp.driftX), FAdd(t.y, pp.driftY), t.z)

\* === 6. POINTING BEAM ===
PointingBeam(t, distToHand, m, pp, i, seed) ==
    LET beamProximity == FMax(0, FSub(SCALE, FDiv(distToHand, 3 * SCALE)))
        beamLength == FScale(m.pointStrength, 8, 1)
        beamProgress == (i % 100) * 100
        reach == FMul(beamLength, beamProgress)
        beam == Vec(FAdd(pp.hand.x, FMul(m.pointDirection.x, reach)),
                    FAdd(pp.hand.y, FMul(m.pointDirection.y, reach)),
                    FAdd(pp.hand.z, FMul(m.pointDirection.z, reach)))
        beamMix == FScale(FMul(beamProximity, m.pointStrength), 5, 10)
    IN IF FGt(m.pointStrength, 3000) /\ FGt(beamProximity, 0)
       THEN Vec(FAdd(Mix(t.x, beam.x, beamMix), FScale(FMul(seed.x, beamProgress), 3, 10)),
                FAdd(Mix(t.y, beam.y, beamMix), FScale(FMul(seed.y, beamProgress), 3, 10)),
                Mix(t.z, beam.z, beamMix))
       ELSE t

\* === 7. INDIVIDUAL FINGER EFFECTS ===
FingerEffects(t, m, time, phase) ==
    LET fingerWave ==
            FScale(FAdd(FAdd(FMul(m.indexCurl, Sin(FAdd(FScale(time, 2, 1), phase))),
                             FMul(m.middleCurl,
                                  Sin(FAdd(FScale(time, 25, 10), FScale(phase, 12, 10))))),
                        FAdd(FMul(m.ringCurl,
                                  Sin(FAdd(FScale(time, 3, 1), FScale(phase, 14, 10)))),
                             FMul(m.pinkyCurl,
                                  Sin(FAdd(FScale(time, 35, 10), FScale(phase, 16, 10)))))),
                   1, 10)
    IN Vec(t.x, FAdd(t.y, FMul(fingerWave, FSub(SCALE, m.openness))), t.z)

\* === 8. VELOCITY-BASED TRAILS ===
VelocityTrails(t, distToHand, m) ==
    LET trailStrength == FScale(FMul(m.speed, FSub(SCALE, FDiv(distToHand, 5 * SCALE))),
                                3, 10)
    IN IF FGt(m.speed, 1000) /\ FLt(distToHand, 5 * SCALE)
       THEN Vec(FAdd(t.x, FMul(m.velocity.x, trailStrength)),
                FAdd(t.y, FMul(m.velocity.y, trailStrength)), t.z)
       ELSE t

\* === 9. TENSION JITTER ===  (rnd: the three numbers Math.random() returns)
TensionJitter(t, m, rnd) ==
    LET jitter == FMul(FScale(FSub(m.tension, SCALE \div 2), 2, 1), m.energy)
    IN IF FGt(m.tension, SCALE \div 2)
       THEN Vec(FAdd(t.x, FScale(FMul(rnd[1] - SCALE \div 2, jitter), 3, 10)),
                FAdd(t.y, FScale(FMul(rnd[2] - SCALE \div 2, jitter), 3, 10)),
                FAdd(t.z, FScale(FMul(rnd[3] - SCALE \div 2, jitter), 3, 10)))
       ELSE t

\* The force terms with the expansion last instead of first.
ForceTermsExpansionLast(t, i, p, distToHand, time, m, pp, phase, seed, rnd) ==
    Expansion(
        TensionJitter(
            VelocityTrails(
                FingerEffects(
                    PointingBeam(
                        DirectionalFlow(
                            Turbulence(
                                Vortex(PinchAttraction(t, p, m, pp, time, phase),
                                       distToHand, m, pp, time, phase),
                                m, pp, time, phase, seed),
                            pp),
                        distToHand, m, pp, i, seed),
                    m, time, phase),
                distToHand, m),
            m, rnd),
        pp)

\* The nine force terms, in the order of the code, each given the target the
\* term before it left.
ForceTerms(t, i, p, distToHand, time, m, pp, phase, seed, rnd) ==
    TensionJitter(
        VelocityTrails(
            FingerEffects(
                PointingBeam(
                    DirectionalFlow(
                        Turbulence(
                            Vortex(
                                PinchAttraction(Expansion(t, pp), p, m, pp, time, phase),
                                distToHand, m, pp, time, phase),
                            m, pp, time, phase, seed),
                        pp),
                    distToHand, m, pp, i, seed),
                m, time, phase),
            distToHand, m),
        m, rnd)

\* The force terms applied whether a hand is present or not.
HandTermsUngated(t, i, p, distToHand, time, m, pp, phase, seed, rnd) ==
    ForceTerms(t, i, p, distToHand, time, m, pp, phase, seed, rnd)

\* if (m.isPresent) { ... }
HandTerms(t, i, p, distToHand, time, m, pp, phase, seed, rnd) ==
    IF m.isPresent THEN ForceTerms(t, i, p, distToHand, time, m, pp, phase, seed, rnd)
    ELSE t

\* if (isTransitioning && transition.previousTargets) { ... }
TransitionTarget(t, i, previous, ejection, isTransitioning, step, time, phase, seed) ==
    IF isTransitioning /\ ~previous.isNull
    THEN InterpolateTarget(t, ReadPoint(previous.array, i), ReadPoint(ejection, i),
                           step, time, phase, seed)
    ELSE t

\* The target of particle i after the interpolation and the breathing.
BreathedTarget(i, targets, previous, ejection, isTransitioning, step, time, m, phase, seed) ==
    Breathing(TransitionTarget(ReadPoint(targets, i), i, previous, ejection,
                               isTransitioning, step, time, phase, seed),
              m, time, phase, seed)

\* The target t of particle i after, with a hand present, the nine force terms.
ForcedTarget(t, i, p, time, m, pp, phase, seed, rnd) ==
    HandTerms(t, i, p,
              Hypot3(FSub(p.x, pp.hand.x), FSub(p.y, pp.hand.y), FSub(p.z, pp.hand.z)),
              time, m, pp, phase, seed, rnd)

\* The target of particle i after the interpolation, the breathing and, with
\* a hand present, the nine force terms.
ParticleTarget(i, p, targets, previous, ejection, isTransitioning, step, time, m, pp, phase, seed, rnd) ==
    ForcedTarget(BreathedTarget(i, targets, previous, ejection, isTransitioning, step,
                                time, m, phase, seed),
                 i, p, time, m, pp, phase, seed, rnd)

\* A physics update whose damping grows with the energy.
PhysicsUpdateEnergyAdds(p, v, t, m, pp) ==
    LET lerpFactor == FAdd(pp.transitionLerp, FScale(m.expressiveness, 3, 100))
        damping == FAdd(pp.baseDamping, FScale(m.energy, 5, 100))
        vel == Vec(FMul(FAdd(v.x, FMul(FSub(t.x, p.x), lerpFactor)), damping),
                   FMul(FAdd(v.y, FMul(FSub(t.y, p.y), lerpFactor)), damping),
                   FMul(FAdd(v.z, FMul(FSub(t.z, p.z), lerpFactor)), damping))
    IN [velocity |-> vel,
        position |-> Vec(FAdd(p.x, vel.x), FAdd(p.y, vel.y), FAdd(p.z, vel.z)),
        target |-> t, lerpFactor |-> lerpFactor, damping |-> damping]

\* === PHYSICS UPDATE ===: the velocity and the position of a particle at p
\* with velocity v and target t.
PhysicsUpdate(p, v, t, m, pp) ==
    LET lerpFactor == FAdd(pp.transitionLerp, FScale(m.expressiveness, 3, 100))
        damping == FSub(pp.baseDamping, FScale(m.energy, 5, 100))
        vel == Vec(FMul(FAdd(v.x, FMul(FSub(t.x, p.x), lerpFactor)), damping),
                   FMul(FAdd(v.y, FMul(FSub(t.y, p.y), lerpFactor)), damping),
                   FMul(FAdd(v.z, FMul(FSub(t.z, p.z), lerpFactor)), damping))
    IN [velocity |-> vel,
        position |-> Vec(FAdd(p.x, vel.x), FAdd(p.y, vel.y), FAdd(p.z, vel.z)),
        target |-> t, lerpFactor |-> lerpFactor, damping |-> damping]

\* === SYSTEM ROTATION ===, === DYNAMIC PARTICLE SIZE === and
\* === TRANSITION LIGHT FLASH ===: what the frame sets on the scene objects.
SceneUpdate(isTransitioning, step, flashIntensity, time, m) ==
    LET baseRotation == FScale(time, 3, 100)
        gripRotation == FScale(FMul(m.gripStrength, time), 2, 10)
        transitionRotation ==
            IF isTransitioning
            THEN FMul(FScale(Sin(FScale(time, 2, 1)), 1, 10),
                      FSub(SCALE, step.transitionFactor))
            ELSE 0
        transitionBoost == IF isTransitioning
                           THEN FScale(FSub(SCALE, step.transitionFactor), 5, 100)
                           ELSE 0
    IN [rotationY |-> FAdd(FAdd(baseRotation, gripRotation), transitionRotation),
        rotationZ |-> FAdd(FScale(time, 1, 100), FScale(m.palmTilt, 3, 10)),
        size |-> FAdd(FAdd(1000, FScale(m.energy, 8, 100)),
                      FAdd(FScale(FSub(SCALE, m.openness), 3, 100), transitionBoost)),
        opacity |-> IF isTransitioning /\ FGt(flashIntensity, 0)
                    THEN FAdd(8000, FScale(flashIntensity, 2, 10))
                    ELSE 9000,
        intensity |-> FScale(flashIntensity, 5, 1)]

\* The ejection impulse the shape-change effect draws for one particle.
EjectionForce(rs) ==
    LET angle == FScale(rs[1], TwoPi, SCALE)
        strength == FAdd(SCALE \div 2, FScale(rs[2], 15, 10))
    IN Vec(FMul(Cos(angle), strength), FMul(rs[3] - 3000, strength),
           FMul(Sin(angle), strength))

(***************************************************************************)
(* The state.                                                              *)
(*   now     performance.now(), in ms                                      *)
(*   ext     the HandMetricsExtractor                                      *)
(*   ret     the metrics the last extract call returned (before the first  *)
(*           call: the empty metrics the application starts with)          *)
(*   call    what the last operation on the extractor was: its kind, the   *)
(*           frame and the time step it was given, the extractor before    *)
(*           it, the number of operations so far and the number of         *)
(*           consecutive calls that repeated the frame of the call before  *)
(*           at one tick                                                   *)
(*   service the HandService that owns ext: how far its initialize() has   *)
(*           come, whether it holds a camera and a video element, and the  *)
(*           number of reset() calls it has made on ext                    *)
(*   sm      a MetricSmoother used on its own                              *)
(*   smCall  what the last operation on sm was: its kind, channel, input   *)
(*           and result, and per channel the value last returned since     *)
(*           the construction or the last reset                            *)
(*   detection   the last call of GestureDetector.detectGesture: how many   *)
(*           calls were made, its finger states and pinch flag, and what   *)
(*           it returned                                                   *)
(* and of the particle simulator, followed at one particle index:          *)
(*   clockStart        performance.now() when the scene's clock started    *)
(*   shape             the shape prop of the last render                   *)
(*   prevShapeRef      prevShapeRef.current                                *)
(*   isTransitioning   the state of that name                              *)
(*   transition        transitionRef.current                               *)
(*   targetPositions, ejectionForces, currentPositions, velocities         *)
(*                     the buffers of those names                          *)
(*   particle          the index followed, its phase and its seed          *)
(*   scene             the rotation, size, opacity and light intensity     *)
(*                     the last frame set                                  *)
(*   metrics           the metrics prop                                    *)
(*   simCall           what the last step of the simulator was             *)
(***************************************************************************)
VARIABLES now, ext, ret, call, service, detection, sm, smCall,
          clockStart, shape, prevShapeRef, isTransitioning, transition,
          targetPositions, ejectionForces, particle, currentPositions, velocities,
          scene, metrics, simCall

extVars == <<now, ext, ret, call, service, detection>>
smVars == <<sm, smCall>>
simVars == <<clockStart, shape, prevShapeRef, isTransitioning, transition,
             targetPositions, ejectionForces, particle, currentPositions, velocities,
             scene, metrics, simCall>>
vars == <<now, ext, ret, call, service, detection, sm, smCall,
          clockStart, shape, prevShapeRef, isTransitioning, transition,
          targetPositions, ejectionForces, particle, currentPositions, velocities,
          scene, metrics, simCall>>

\* Bounds of the model.
MaxCalls == 3
MaxShake == 6
MaxSmoothCalls == 3

\* The ticks a still hand is followed while its smoothed velocity fades.
MaxSettle == 60

\* The frames a pinching hand goes through before it is held, and the ticks
\* it is then held.
MaxApproach == 2
MaxKeep == 12

\* The calls that feed one value to one channel.
FeedCount == 10

\* The time from the page's time origin to the first tracking result, in ms.
LoadTime == 500

\* One tracking tick, in ms (deltaTime = 0.016).
Tick == 16

\* The time between two results: none (two results within one reading of
\* the clock) or one tick.
TickSteps == {0, Tick}

NoCall == [op |-> "init", frame |-> "none", dt |-> 0, before |-> NewExtractor,
           n |-> 0, streak |-> 0, still |-> 0, prev |-> "init"]

NoSmCall == [op |-> "init", key |-> "", raw |-> 0, rawVec |-> Vec(0, 0, 0),
             result |-> 0, resultVec |-> Vec(0, 0, 0),
             lastValue |-> << >>, lastVector |-> << >>, before |-> << >>,
             beforeVec |-> << >>, prior |-> << >>, n |-> 0]

(***************************************************************************)
(* The simulator's state and steps.                                        *)
(***************************************************************************)
\* Bounds of the simulator's runs.
MaxFrames == 2
MaxChanges == 1

\* What performance.now() can be when the scene's clock starts, in ms.
ClockStarts == {LoadTime \div 5, LoadTime}

\* The time from one frame to the next, in ms: a display frame, half the
\* transition and the whole transition (a tab that was in the background).
FrameSteps == {Tick, TRANSITION_DURATION \div 20, TRANSITION_DURATION \div 10}

\* Draw streams of Math.random().
Draws == {<<5000, 5000, 5000, 5000, 5000, 5000, 5000>>,
          <<1000, 9000, 3000, 7000, 2000, 8000, 4000>>}

\* The particle indices followed: the first, the last one the geometry
\* sampler fills, the first it does not, and the last of the simulator.
TrackedIndices == {0, PARTICLE_COUNT - 1, PARTICLE_COUNT, COUNT - 1}

\* Metrics handed to the simulator: no hand, a hand at rest, and a hand with
\* every bounded metric at its maximum.
RestMetrics ==
    [getEmptyMetrics(0) EXCEPT !.isPresent = TRUE, !.confidence = SCALE,
                               !.position = Vec(2000, 0 - 1000, 1000),
                               !.handSize = 2000]

FullMetrics ==
    [getEmptyMetrics(SCALE) EXCEPT
        !.isPresent = TRUE, !.confidence = SCALE,
        !.position = Vec(SCALE, SCALE, SCALE), !.velocity = Vec(SCALE, 0 - SCALE, 0),
        !.speed = SCALE, !.openness = SCALE, !.pinchStrength = SCALE,
        !.pinchPosition = Vec(SCALE, SCALE, SCALE), !.fingerSpread = SCALE,
        !.palmNormal = Vec(SCALE, 0, 0), !.palmTilt = SCALE,
        !.thumbCurl = SCALE, !.indexCurl = SCALE, !.middleCurl = SCALE,
        !.ringCurl = SCALE, !.pinkyCurl = SCALE, !.pointStrength = SCALE,
        !.gripStrength = SCALE, !.tension = SCALE, !.expressiveness = SCALE,
        !.handSize = 2500]

MetricsChoices == {getEmptyMetrics(0), RestMetrics, FullMetrics}

\* new Float32Array(n * 3), seen at one index: zeros.
ZeroArray(n) == [length |-> n * 3, at |-> Vec(0, 0, 0)]

\* particlePhases[i], particleSeeds[i * 3 ..] and the position the mount
\* effect gives particle i, from one draw stream.
NewParticle(i, rs) ==
    [i |-> i,
     phase |-> FScale(rs[1], TwoPi, SCALE),
     seed |-> Vec((rs[2] - SCALE \div 2) * 2, (rs[3] - SCALE \div 2) * 2,
                  (rs[4] - SCALE \div 2) * 2),
     start |-> Vec((rs[5] - SCALE \div 2) * 50, (rs[6] - SCALE \div 2) * 50,
                   (rs[7] - SCALE \div 2) * 50)]

NoTransition == [progress |-> 0, startTime |-> 0,
                 previousTargets |-> [isNull |-> TRUE, array |-> ZeroArray(0)],
                 flashIntensity |-> 0]

NoScene == [rotationY |-> 0, rotationZ |-> 0, size |-> 1200, opacity |-> 9000,
            intensity |-> 0]

NoSimCall == [op |-> "init", frames |-> 0, changes |-> 0, renders |-> 0,
              changeTime |-> 0, shapeBefore |-> "Galaxy",
              transitionBefore |-> NoTransition, ejectionBefore |-> ZeroArray(COUNT),
              particleBefore |-> NewParticle(0, <<0, 0, 0, 0, 0, 0, 0>>),
              draws |-> << >>,
              step |-> 0, wasTransitioning |-> FALSE, progressBefore |-> 0,
              targetsBefore |-> ZeroArray(0), reported |-> << >>,
              positionBefore |-> Vec(0, 0, 0), velocityBefore |-> Vec(0, 0, 0),
              breathed |-> Vec(0, 0, 0), target |-> Vec(0, 0, 0),
              lerpFactor |-> 0, damping |-> 0]

\* The simulator mounted with the application's first shape.
SimMounted(start, i, rs, geometry, m) ==
    /\ clockStart = start
    /\ shape = "Galaxy"
    /\ prevShapeRef = "Galaxy"
    /\ isTransitioning = FALSE
    /\ transition = NoTransition
    /\ targetPositions = generateGeometry("Galaxy", PARTICLE_COUNT, i, geometry)
    /\ ejectionForces = ZeroArray(COUNT)
    /\ particle = NewParticle(i, rs)
    /\ currentPositions = [length |-> COUNT * 3, at |-> NewParticle(i, rs).start]
    /\ velocities = ZeroArray(COUNT)
    /\ scene = NoScene
    /\ metrics = m
    /\ simCall = NoSimCall

SimIdle == SimMounted(LoadTime, 0, <<5000, 5000, 5000, 5000, 5000, 5000, 5000>>,
                      <<5000, 5000, 5000, 5000, 5000, 5000, 5000>>, getEmptyMetrics(0))

\* No gesture detected yet.
NoDetection == [n |-> 0, fingers |-> <<FALSE, FALSE, FALSE, FALSE, FALSE>>,
                isPinch |-> FALSE, gesture |-> "none", confidence |-> 0]

\* new HandService(onResults): nothing loaded, no camera, no video element.
NewService == [phase |-> "new", camera |-> FALSE, videoElement |-> FALSE,
               stops |-> 0, resets |-> 0]

\* A stop() that resets the extractor only if there is a camera to stop.
stopServiceIfCamera(svc, e) ==
    [service |-> [svc EXCEPT !.phase = IF svc.camera THEN "stopped" ELSE svc.phase,
                             !.stops = svc.stops + 1,
                             !.resets = IF svc.camera THEN svc.resets + 1 ELSE svc.resets],
     ext |-> IF svc.camera THEN extractorReset(e) ELSE e]

\* HandService.stop(): the camera is stopped if there is one, the video
\* element removed if there is one, and the extractor reset.
stopService(svc, e) ==
    [service |-> [svc EXCEPT !.phase = IF svc.camera THEN "stopped" ELSE svc.phase,
                             !.stops = svc.stops + 1,
                             !.resets = svc.resets + 1],
     ext |-> extractorReset(e)]

ExtIdle ==
    /\ now = LoadTime
    /\ ext = NewExtractor
    /\ service = NewService
    /\ detection = NoDetection
    /\ ret = getEmptyMetrics(0)
    /\ call = NoCall

SmIdle ==
    /\ sm = MetricSmoother(35)
    /\ smCall = NoSmCall

ExtInit == ExtIdle /\ SmIdle /\ SimIdle

\* The velocity is zero to the last digit kept: it adds nothing to the energy.
AtRest(v) == Abs(v.x) <= 1 /\ Abs(v.y) <= 1 /\ Abs(v.z) <= 1

\* A tracking result arrives d ms after the last one: processResults calls
\* extract with the frame (or null) and publishes what it returns.
DoExtract(f, d) ==
    \E r \in {extract(ext, Raw(f), now + d, DefaultDeltaTime)} :
       /\ now' = now + d
       /\ ext' = r.ext
       /\ ret' = r.out
       /\ call' = [op |-> "extract", frame |-> f, dt |-> d, before |-> ext,
                   n |-> call.n + 1,
                   streak |-> IF f = call.frame /\ call.op = "extract" /\ d = Tick
                              THEN call.streak + 1 ELSE 0,
                   still |-> IF f \in HandFrames /\ d = Tick /\ AtRest(r.out.velocity)
                             THEN call.still + 1 ELSE 0,
                   prev |-> call.op]
       /\ UNCHANGED <<service, detection, smVars, simVars>>

ExtractCall ==
    /\ call.n < MaxCalls
    /\ \E f \in AllFrames, d \in TickSteps : DoExtract(f, d)

\* The owner resets the extractor.
ResetCall ==
    /\ call.n < MaxCalls
    /\ ext' = extractorReset(ext)
    /\ call' = [op |-> "reset", frame |-> "none", dt |-> 0, before |-> ext,
                n |-> call.n + 1, streak |-> 0, still |-> 0, prev |-> call.op]
    /\ UNCHANGED <<now, ret, service, detection>>
    /\ UNCHANGED <<smVars, simVars>>

Next == ExtractCall \/ ResetCall

Spec == ExtInit /\ [][Next]_vars

(***************************************************************************)
(* Claims about extract, under Spec.                                       *)
(***************************************************************************)
InUnit(a) == a >= 0 /\ a <= SCALE
InSigned(a) == a >= 0 - SCALE /\ a <= SCALE

\* C5: every bounded metric extract returns lies within [0,1].
CounterexampleC5 ==
    call.op = "extract" =>
        /\ InUnit(ret.openness) /\ InUnit(ret.pinchStrength) /\ InUnit(ret.fingerSpread)
        /\ InUnit(ret.thumbCurl) /\ InUnit(ret.indexCurl) /\ InUnit(ret.middleCurl)
        /\ InUnit(ret.ringCurl) /\ InUnit(ret.pinkyCurl)
        /\ InUnit(ret.gripStrength) /\ InUnit(ret.pointStrength) /\ InUnit(ret.speed)
        /\ InUnit(ret.energy) /\ InUnit(ret.tension) /\ InUnit(ret.expressiveness)
        /\ InUnit(ret.confidence)

\* C6: every metrics value extract returns has palmFacingCamera exactly -1
\* or exactly 1.
CounterexampleC6 ==
    call.op = "extract" => ret.palmFacingCamera \in {0 - SCALE, SCALE}

\* C7: every component of the returned position and palmTilt lie within
\* [-1,1], and every component of the returned velocity is a number.
CounterexampleC7 ==
    call.op = "extract" =>
        /\ InSigned(ret.position.x) /\ InSigned(ret.position.y)
        /\ InSigned(ret.position.z)
        /\ InSigned(ret.palmTilt)
        /\ IsFinite(ret.velocity.x) /\ IsFinite(ret.velocity.y)
        /\ IsFinite(ret.velocity.z)

\* The empty metrics as the claim C8 has them: openness 0.6 and every other
\* scalar 0.
AllZeroMetrics(energy) ==
    [isPresent |-> FALSE, confidence |-> 0, position |-> Vec(0, 0, 0),
     velocity |-> Vec(0, 0, 0), speed |-> 0, openness |-> 6000, pinchStrength |-> 0,
     pinchPosition |-> Vec(0, 0, 0), fingerSpread |-> 0,
     palmNormal |-> Vec(0, 0, SCALE), palmFacingCamera |-> 0, palmTilt |-> 0,
     thumbCurl |-> 0, indexCurl |-> 0, middleCurl |-> 0, ringCurl |-> 0,
     pinkyCurl |-> 0, pointDirection |-> Vec(0, 0 - SCALE, 0), pointStrength |-> 0,
     gripStrength |-> 0, energy |-> energy, tension |-> 0, expressiveness |-> 0,
     depth |-> 0, handSize |-> 0, landmarks |-> << >>]

NoHandCall == call.op = "extract" /\ call.frame = "none"

\* C8 as claimed: a no-hand call returns openness 0.6, every other scalar 0,
\* and the energy of before the call times 0.97.
CounterexampleC8 ==
    NoHandCall =>
        /\ ret = AllZeroMetrics(ret.energy)
        /\ IsFinite(call.before.energy) =>
              ret.energy = (call.before.energy * 97 + 50) \div 100

\* C8, amended: a no-hand call returns isPresent false, openness 0.6,
\* palmFacingCamera 1, palmNormal (0,0,1), pointDirection (0,-1,0), every
\* other scalar 0 and no landmarks, and as its energy the accumulator of
\* before the call times 0.97 (NaN stays NaN); the accumulator is left at
\* that value, which is not above the value before and is positive if the
\* value before was.
TheoremC8 ==
    NoHandCall =>
        /\ ret = [AllZeroMetrics(ret.energy) EXCEPT !.palmFacingCamera = SCALE]
        /\ ext.energy = ret.energy
        /\ IsNaN(call.before.energy) => IsNaN(ret.energy)
        /\ IsFinite(call.before.energy) =>
              /\ ret.energy = (call.before.energy * 97 + 50) \div 100
              /\ ret.energy <= call.before.energy
              /\ call.before.energy > 0 => ret.energy > 0

\* C8's case: a no-hand call on an extractor whose energy was positive.
WitnessC8 == NoHandCall /\ call.before.energy > 0 /\ IsFinite(call.before.energy)

\* The last call was an extract on a frame of fewer than 21 points.
ShortFrameCall == call.op = "extract" /\ call.frame = "short"

\* What the last call would have left and returned had its argument been null.
AsNoHand == extract(call.before, Raw("none"), now, DefaultDeltaTime)

\* C13 as claimed: a call on a short frame leaves and returns what a call
\* with null would, and changes nothing of the extractor but the energy.
CounterexampleC13 ==
    ShortFrameCall =>
        /\ ext = AsNoHand.ext /\ ret = AsNoHand.out
        /\ ext = [call.before EXCEPT !.energy = Decayed(call.before)]

\* C13, amended: a call on a short frame leaves and returns what a call
\* with null would; it leaves the three smoothers and the last position as
\* they were, multiplies the energy by 0.97 and records the time of the call.
TheoremC13 ==
    ShortFrameCall =>
        /\ ext = AsNoHand.ext /\ ret = AsNoHand.out
        /\ ext = [call.before EXCEPT !.energy = Decayed(call.before), !.lastTime = now]

\* C13's case: a short frame on an extractor that holds smoothed channels
\* and energy from a hand seen before.
WitnessC13 ==
    /\ ShortFrameCall
    /\ call.before.energy > 0 /\ IsFinite(call.before.energy)
    /\ "pinch" \in DOMAIN call.before.fastSmoother.values
    /\ call.before.lastTime < now

\* A smoother with no channel.
NoChannels(m) == m.values = << >> /\ m.vectors = << >>

\* C14: after an extract call with no hand, the three smoothers hold no
\* channel.
CounterexampleC14 ==
    NoHandCall =>
        /\ NoChannels(ext.smoother)
        /\ NoChannels(ext.fastSmoother)
        /\ NoChannels(ext.slowSmoother)

\* C15: after reset() the value and vector maps of the default, the fast and
\* the slow smoother are empty and the energy is 0.
TheoremC15 ==
    call.op = "reset" =>
        /\ NoChannels(ext.smoother)
        /\ NoChannels(ext.fastSmoother)
        /\ NoChannels(ext.slowSmoother)
        /\ ext.energy = 0

\* C15's case: a reset of an extractor whose three smoothers hold channels
\* and whose energy is positive.
WitnessC15 ==
    /\ call.op = "reset"
    /\ ~NoChannels(call.before.smoother)
    /\ ~NoChannels(call.before.fastSmoother)
    /\ ~NoChannels(call.before.slowSmoother)
    /\ call.before.energy > 0

\* Every component of a vector is a finite number.
FiniteVec(v) == IsFinite(v.x) /\ IsFinite(v.y) /\ IsFinite(v.z)

\* C19: no field of the metrics an extract call returns is NaN or infinite.
CounterexampleC19 ==
    call.op = "extract" =>
        /\ FiniteVec(ret.position) /\ FiniteVec(ret.velocity)
        /\ FiniteVec(ret.pinchPosition) /\ FiniteVec(ret.palmNormal)
        /\ FiniteVec(ret.pointDirection)
        /\ \A k \in DOMAIN ret.landmarks : FiniteVec(ret.landmarks[k])
        /\ \A x \in {ret.confidence, ret.speed, ret.openness, ret.pinchStrength,
                      ret.fingerSpread, ret.palmFacingCamera, ret.palmTilt,
                      ret.thumbCurl, ret.indexCurl, ret.middleCurl, ret.ringCurl,
                      ret.pinkyCurl, ret.pointStrength, ret.gripStrength, ret.energy,
                      ret.tension, ret.expressiveness, ret.depth, ret.handSize} :
              IsFinite(x)

\* C25: in every hand-present metrics value extract returns, palmTilt is
\* the x-component of the returned palmNormal.
TheoremC25 ==
    (call.op = "extract" /\ ret.isPresent) => ret.palmTilt = ret.palmNormal.x

\* C25's case: a hand-present result whose tilt is under way from an earlier
\* palm orientation to the one of the frame.
WitnessC25 ==
    /\ call.op = "extract" /\ ret.isPresent
    /\ call.n >= 2
    /\ ret.palmTilt # 0
    /\ ret.palmTilt # calculatePalmNormal(Raw(call.frame).pts).x
    /\ "palmTilt" \in DOMAIN call.before.smoother.values

(***************************************************************************)
(* The service.  ServiceSpec follows a HandService from its construction:  *)
(* initialize() waits for the tracking library, gives up or sets up the    *)
(* camera; while the camera runs, results arrive, and one can still arrive *)
(* after the camera was stopped; stop() can be called at any point.        *)
(***************************************************************************)
\* initialize() is called and waits for the library.
InitializeBegin ==
    /\ service.phase = "new"
    /\ service' = [service EXCEPT !.phase = "loading"]
    /\ UNCHANGED <<now, ext, ret, call, detection, smVars, simVars>>

\* The library did not load: initialize() returns and nothing is set up.
InitializeFail ==
    /\ service.phase = "loading"
    /\ service' = [service EXCEPT !.phase = "failed"]
    /\ UNCHANGED <<now, ext, ret, call, detection, smVars, simVars>>

\* The library loaded: the video element is created and the camera started.
InitializeDone ==
    /\ service.phase = "loading"
    /\ service' = [service EXCEPT !.phase = "running", !.camera = TRUE,
                                  !.videoElement = TRUE]
    /\ UNCHANGED <<now, ext, ret, call, detection, smVars, simVars>>

\* A tracking result is processed.
Results ==
    /\ service.phase \in {"running", "stopped"}
    /\ call.n < MaxCalls
    /\ \E f \in PinchFrames \cup {"none"} : DoExtract(f, Tick)

\* stop() is called.
Stop ==
    /\ call.n < MaxCalls
    /\ \E r \in {stopService(service, ext)} :
          /\ service' = r.service
          /\ ext' = r.ext
    /\ call' = [op |-> "stop", frame |-> "none", dt |-> 0, before |-> ext,
                n |-> call.n + 1, streak |-> 0, still |-> 0, prev |-> call.op]
    /\ UNCHANGED <<now, ret, detection, smVars, simVars>>

ServiceNext == InitializeBegin \/ InitializeFail \/ InitializeDone \/ Results \/ Stop

ServiceSpec == ExtInit /\ [][ServiceNext]_vars

\* C16: every stop() calls reset() on the extractor, whatever the service
\* was doing: the resets made are as many as the stops, and after a stop
\* the extractor is the one of before with its smoothers and energy cleared.
TheoremC16 ==
    /\ service.resets = service.stops
    /\ call.op = "stop" =>
          /\ ext = extractorReset(call.before)
          /\ NoChannels(ext.smoother)
          /\ NoChannels(ext.fastSmoother)
          /\ NoChannels(ext.slowSmoother)

\* C16's case: stop() on a running service whose extractor holds smoother
\* history.
WitnessC16 ==
    /\ call.op = "stop"
    /\ service.phase = "stopped"
    /\ ~NoChannels(call.before.smoother)

\* C29: the metrics the first extract after a reset() returns are those a
\* newly constructed extractor returns for the same frame.
CounterexampleC29 ==
    (call.op = "extract" /\ call.prev = "reset") =>
        ret = extract(NewExtractor, Raw(call.frame), now, DefaultDeltaTime).out

\* C28: once stop() has been called the camera is not running and no
\* result is processed and handed to the callback any more.
CounterexampleC28 ==
    service.stops > 0 =>
        /\ service.phase # "running"
        /\ call.op # "extract"

(***************************************************************************)
(* A hand held still.  HoldSpec drives the extractor as the tracker does   *)
(* when a hand enters the image, is moved to and fro for a while and is    *)
(* then held still: one result per tick, the frames alternating while the  *)
(* hand moves and repeating once it is still.                              *)
(***************************************************************************)
\* The ticks of 2 seconds.
HoldTicks == 2000 \div Tick

\* The hand moves: this tick's frame is not the last one's.
Shake ==
    /\ call.n < MaxShake
    /\ call.streak = 0
    /\ \E f \in {"open", "moved"} : f # call.frame /\ DoExtract(f, Tick)

\* The hand is still: this tick's frame is the last one's.
Hold ==
    /\ call.op = "extract"
    /\ call.frame \in HandFrames
    /\ call.still < HoldTicks
    /\ call.streak < HoldTicks + MaxSettle
    /\ DoExtract(call.frame, Tick)

HoldNext == Shake \/ Hold

HoldSpec == ExtInit /\ [][HoldNext]_vars

\* C9: after 2 seconds of ticks in each of which the hand was present and
\* the velocity extract returned was zero, the energy extract returns is
\* below 0.01.
CounterexampleC9 == call.still >= HoldTicks => ret.energy < 100

(***************************************************************************)
(* A MetricSmoother on its own: SmootherSpec calls smoothValue,            *)
(* smoothVector and reset on one smoother in any order.                    *)
(***************************************************************************)
Alphas == {15, 35, 60}
Channels == {"a", "b"}
RawValues == {0, 1000, 0 - 5000, SCALE}
RawVectors == {Vec(0, 0, SCALE), Vec(SCALE, 0 - 3000, 0)}

SmInit ==
    /\ ExtIdle
    /\ sm \in {MetricSmoother(a) : a \in Alphas}
    /\ smCall = NoSmCall
    /\ SimIdle

SmoothValueCall ==
    /\ smCall.n < MaxSmoothCalls
    /\ \E key \in Channels, raw \in RawValues :
          \E v \in {smoothValue(sm, key, raw)} :
             /\ sm' = Stored(sm, key :> v, << >>)
             /\ smCall' = [smCall EXCEPT !.op = "value", !.key = key, !.raw = raw,
                                         !.result = v,
                                         !.before = smCall.lastValue,
                                         !.lastValue = (key :> v) @@ smCall.lastValue,
                                         !.n = smCall.n + 1]
    /\ UNCHANGED <<extVars, simVars>>

SmoothVectorCall ==
    /\ smCall.n < MaxSmoothCalls
    /\ \E key \in Channels, raw \in RawVectors :
          \E v \in {smoothVector(sm, key, raw)} :
             /\ sm' = Stored(sm, << >>, key :> v)
             /\ smCall' = [smCall EXCEPT !.op = "vector", !.key = key, !.rawVec = raw,
                                         !.resultVec = v,
                                         !.beforeVec = smCall.lastVector,
                                         !.lastVector = (key :> v) @@ smCall.lastVector,
                                         !.n = smCall.n + 1]
    /\ UNCHANGED <<extVars, simVars>>

SmootherResetCall ==
    /\ smCall.n < MaxSmoothCalls
    /\ sm' = SmootherReset(sm)
    /\ smCall' = [smCall EXCEPT !.op = "reset", !.lastValue = << >>,
                                !.lastVector = << >>, !.n = smCall.n + 1]
    /\ UNCHANGED <<extVars, simVars>>

SmNext == SmoothValueCall \/ SmoothVectorCall \/ SmootherResetCall

SmootherSpec == SmInit /\ [][SmNext]_vars

\* alpha * raw + (1 - alpha) * previous, alpha in hundredths.
Blend(alpha, raw, previous) == (alpha * raw + (100 - alpha) * previous + 50) \div 100

\* C10: the first call on a channel since the construction or the last
\* reset returns the raw input; every later call returns
\* alpha * raw + (1 - alpha) * previous, previous being the value the
\* channel last returned.
TheoremC10 ==
    /\ smCall.op = "value" =>
          smCall.result =
             IF smCall.key \in DOMAIN smCall.before
             THEN Blend(sm.alpha, smCall.raw, smCall.before[smCall.key])
             ELSE smCall.raw
    /\ smCall.op = "vector" =>
          smCall.resultVec =
             IF smCall.key \in DOMAIN smCall.beforeVec
             THEN LET p == smCall.beforeVec[smCall.key]
                  IN Vec(Blend(sm.alpha, smCall.rawVec.x, p.x),
                         Blend(sm.alpha, smCall.rawVec.y, p.y),
                         Blend(sm.alpha, smCall.rawVec.z, p.z))
             ELSE smCall.rawVec

\* C10's case: a channel is smoothed again after a reset and a first call,
\* and the result is neither the raw input nor the value before.
WitnessC10 ==
    /\ smCall.op = "value"
    /\ smCall.key \in DOMAIN smCall.before
    /\ smCall.result # smCall.raw
    /\ smCall.result # smCall.before[smCall.key]

(***************************************************************************)
(* A constant input.  ConvergeSpec takes the default smoother of the       *)
(* extractor (alpha 0.35), lets one channel be unseen or hold a value from *)
(* an earlier observation, and then feeds the channel one value FeedCount  *)
(* times in a row.                                                         *)
(***************************************************************************)
PriorValues == {0, 300, 0 - 5000, SCALE, 10 * SCALE}
ConstantInputs == {0, 2500, SCALE, 0 - SCALE}

ConvergeInit ==
    /\ ExtIdle
    /\ sm = MetricSmoother(35)
    /\ smCall = NoSmCall
    /\ SimIdle

\* An earlier observation leaves the channel with a value.
Prime ==
    /\ smCall.op = "init"
    /\ \E p \in PriorValues :
          \E v \in {smoothValue(sm, "a", p)} :
             /\ sm' = Stored(sm, "a" :> v, << >>)
             /\ smCall' = [smCall EXCEPT !.op = "prime", !.key = "a", !.raw = p,
                                         !.result = v, !.prior = "a" :> v,
                                         !.lastValue = "a" :> v]
    /\ UNCHANGED <<extVars, simVars>>

\* The channel is fed the value of the last feed, or any value on the first.
FeedSame ==
    /\ smCall.n < FeedCount
    /\ \E raw \in IF smCall.op = "feed" THEN {smCall.raw} ELSE ConstantInputs :
          \E v \in {smoothValue(sm, "a", raw)} :
             /\ sm' = Stored(sm, "a" :> v, << >>)
             /\ smCall' = [smCall EXCEPT !.op = "feed", !.key = "a", !.raw = raw,
                                         !.result = v,
                                         !.before = smCall.lastValue,
                                         !.lastValue = "a" :> v,
                                         !.n = smCall.n + 1]
    /\ UNCHANGED <<extVars, simVars>>

ConvergeNext == Prime \/ FeedSame

ConvergeSpec == ConvergeInit /\ [][ConvergeNext]_vars

\* The channel has been fed smCall.raw FeedCount times in a row.
FedOut == smCall.op = "feed" /\ smCall.n = FeedCount

\* C11 as claimed: after 10 feeds of V the smoothed value is within 2% of V
\* (to the last digit kept), whatever the channel held before.
CounterexampleC11 ==
    FedOut => Abs(smCall.result - smCall.raw) * 100 <= 2 * Abs(smCall.raw) + 100

\* C11, amended: after 10 feeds of V to a channel that held P, the smoothed
\* value is within 2% of the distance from P to V of V (to the last digit
\* kept); on an unseen channel it is V.
TheoremC11 ==
    FedOut =>
        IF "a" \in DOMAIN smCall.prior
        THEN Abs(smCall.result - smCall.raw) * 100
                <= 2 * Abs(smCall.prior["a"] - smCall.raw) + 100
        ELSE smCall.result = smCall.raw

\* C11's case: ten feeds to a channel that held another value, the result
\* within 2% of the value fed but not yet equal to it.
WitnessC11 ==
    /\ FedOut
    /\ "a" \in DOMAIN smCall.prior
    /\ smCall.result # smCall.raw
    /\ Abs(smCall.result - smCall.raw) * 100 <= 2 * Abs(smCall.raw)

(***************************************************************************)
(* A pinch.  PinchSpec shows the extractor a hand that goes through up to  *)
(* MaxApproach poses (open, closed, tips touching, tips 0.14 apart) and is *)
(* then held in the last one, one result per tick.                         *)
(***************************************************************************)
Approach ==
    /\ call.n < MaxApproach
    /\ call.streak = 0
    /\ \E f \in PinchFrames : f # call.frame /\ DoExtract(f, Tick)

Keep ==
    /\ call.op = "extract"
    /\ call.streak < MaxKeep
    /\ DoExtract(call.frame, Tick)

PinchNext == Approach \/ Keep

PinchSpec == ExtInit /\ [][PinchNext]_vars

\* The thumb-tip-to-index-tip distance of a frame and its raw pinch strength.
PinchDist(f) ==
    distance3D(Joint(FrameTable[f], THUMB_TIP), Joint(FrameTable[f], INDEX_FINGER_TIP))
PinchRaw(f) == RawPinchStrength(PinchDist(f))

\* The pinch strength the extractor held before the last call, the raw
\* strength of that call's frame if it held none.
PinchBefore ==
    IF "pinch" \in DOMAIN call.before.fastSmoother.values
    THEN call.before.fastSmoother.values["pinch"]
    ELSE PinchRaw(call.frame)

\* The last call was an extract on a frame whose tips coincide, or are 0.14
\* or more apart.
PinchCase ==
    /\ call.op = "extract"
    /\ call.frame \in PinchFrames
    /\ PinchDist(call.frame) = 0 \/ PinchDist(call.frame) >= 1400

\* C12: a frame whose thumb and index tips coincide has raw pinch strength
\* 1, one whose tips are 0.14 or more apart has raw pinch strength 0; each
\* call on such a frame brings the returned pinchStrength to within 0.4 of
\* its former distance from that value, and MaxKeep calls in a row return
\* exactly that value.
TheoremC12 ==
    PinchCase =>
        /\ PinchRaw(call.frame) = (IF PinchDist(call.frame) = 0 THEN SCALE ELSE 0)
        /\ Abs(ret.pinchStrength - PinchRaw(call.frame)) * 10
              <= 4 * Abs(PinchBefore - PinchRaw(call.frame)) + 5
        /\ call.streak >= MaxKeep - 1 => ret.pinchStrength = PinchRaw(call.frame)

\* C12's case: a held frame with coincident tips, the returned pinchStrength
\* reaching 1 in this call from a lower value.
WitnessC12 ==
    /\ PinchCase
    /\ PinchDist(call.frame) = 0
    /\ call.streak >= 1
    /\ PinchBefore < SCALE
    /\ ret.pinchStrength = SCALE

(***************************************************************************)
(* The simulator: SimSpec mounts it at the start of the scene's clock and  *)
(* then runs frames and shape changes in any order.  A render that leaves  *)
(* the shape as it is changes nothing the model holds (the useMemo of      *)
(* targetPositions and the shape effect both depend on the shape alone):   *)
(* it is a stuttering step.                                                *)
(***************************************************************************)
SimInit ==
    /\ ext = NewExtractor
    /\ service = NewService
    /\ detection = NoDetection
    /\ ret = getEmptyMetrics(0)
    /\ call = NoCall
    /\ SmIdle
    /\ \E start \in ClockStarts, i \in TrackedIndices, rs \in Draws, m \in MetricsChoices :
          /\ now = start
          /\ SimMounted(start, i, rs, rs, m)

\* The frame's result: what it stores in the transition state, whether it
\* ends the transition, and what it writes for the particle and the scene.
FrameResult(time, step, previous, breathed, u) ==
    [transition |-> [transition EXCEPT !.progress = step.progress,
                                       !.flashIntensity = step.flashIntensity,
                                       !.previousTargets = previous],
     done |-> step.done,
     position |-> u.position,
     velocity |-> u.velocity,
     breathed |-> breathed,
     target |-> u.target,
     lerpFactor |-> u.lerpFactor,
     damping |-> u.damping,
     scene |-> SceneUpdate(isTransitioning, step, step.flashIntensity, time, metrics)]

\* The per-particle loop, at the followed particle.
FrameForces(time, step, previous, pp, p, rnd, breathed) ==
    FrameResult(time, step, previous, breathed,
        PhysicsUpdate(p, ReadPoint(velocities, particle.i),
            ForcedTarget(breathed, particle.i, p, time, metrics, pp,
                         particle.phase, particle.seed, rnd),
            metrics, pp))

FrameParticle(time, step, previous, pp, p, rnd) ==
    FrameForces(time, step, previous, pp, p, rnd,
        BreathedTarget(particle.i, targetPositions, previous, ejectionForces,
                       isTransitioning, step, time, metrics,
                       particle.phase, particle.seed))

\* The frame from its transition block on: the snapshot is cleared when the
\* transition is done, before the particle loop.
FrameStep(time, step, rnd) ==
    FrameParticle(time, step,
                  IF step.done THEN NoTransition.previousTargets
                  ELSE transition.previousTargets,
                  PhysicsParameters(metrics, isTransitioning, step.transitionFactor),
                  ReadPoint(currentPositions, particle.i), rnd)

\* What the callback of useFrame computes d ms after the last step, rnd being
\* what Math.random() returns in this frame.  state.clock.getElapsedTime()
\* counts from the start of the scene's clock.
FrameUpdate(d, rnd) ==
    FrameStep((now + d - clockStart) * 10,
              IF isTransitioning
              THEN TransitionStep(transition, (now + d - clockStart) * 10)
              ELSE [progress |-> transition.progress, transitionFactor |-> 0,
                    ejectionFactor |-> 0,
                    flashIntensity |-> transition.flashIntensity, done |-> FALSE],
              rnd)

\* One frame: the callback of useFrame runs, and the state it sets
\* (setIsTransitioning(false)) is rendered before the next step.
DoFrame(d, rnd) ==
    /\ \E r \in {FrameUpdate(d, rnd)} :
          /\ now' = now + d
          /\ transition' = r.transition
          /\ isTransitioning' = (isTransitioning /\ ~r.done)
          /\ currentPositions' = [currentPositions EXCEPT !.at = r.position]
          /\ velocities' = [velocities EXCEPT !.at = r.velocity]
          /\ scene' = r.scene
          /\ simCall' = [simCall EXCEPT !.op = "frame", !.frames = simCall.frames + 1,
                                       !.step = d,
                                       !.wasTransitioning = isTransitioning,
                                       !.progressBefore = transition.progress,
                                       !.targetsBefore = targetPositions,
                                       !.shapeBefore = shape,
                                       !.transitionBefore = NoTransition,
                                       !.ejectionBefore = ejectionForces,
                                       !.particleBefore = particle,
                                       !.draws = << >>,
                                       !.reported = IF isTransitioning
                                                    THEN <<r.transition.progress>>
                                                    ELSE << >>,
                                       !.positionBefore = currentPositions.at,
                                       !.velocityBefore = velocities.at,
                                       !.breathed = r.breathed,
                                       !.target = r.target,
                                       !.lerpFactor = r.lerpFactor,
                                       !.damping = r.damping]
    /\ UNCHANGED <<ext, ret, call, service, detection, smVars>>
    /\ UNCHANGED <<clockStart, shape, prevShapeRef, targetPositions, ejectionForces,
                   particle, metrics>>

Frame ==
    /\ simCall.frames < MaxFrames
    /\ \E d \in FrameSteps, rnd \in Draws : DoFrame(d, rnd)

\* useMemo(compute, deps) in a render after the first: the cached value
\* unless a dependency changed.
UseMemoAlways(changed, cached, computed) == computed

UseMemo(changed, cached, computed) == IF changed THEN computed ELSE cached

\* A targetPositions that is sampled anew in every render.
RenderTargetsFresh(s, memoDraws) ==
    generateGeometry(s, PARTICLE_COUNT, particle.i, memoDraws)

\* targetPositions as the render with shape s sees it, memoDraws being what
\* Math.random() returns if generateGeometry runs.
RenderTargets(s, memoDraws) ==
    UseMemo(s # shape, targetPositions,
            generateGeometry(s, PARTICLE_COUNT, particle.i, memoDraws))

\* A shape effect that lets a transition in progress run on.
ShapeEffectJoins(tr, t, snapshot) ==
    [progress |-> tr.progress,
     startTime |-> IF tr.previousTargets.isNull THEN t ELSE tr.startTime,
     previousTargets |-> [isNull |-> FALSE, array |-> snapshot],
     flashIntensity |-> SCALE]

\* What the shape effect stores in transitionRef.current at time t (in s),
\* snapshot being targetPositions as the effect finds it.
ShapeEffect(tr, t, snapshot) ==
    [progress |-> 0,
     startTime |-> t,
     previousTargets |-> [isNull |-> FALSE, array |-> snapshot],
     flashIntensity |-> SCALE]

\* What a render leaves in simCall.
Rendered(s, draws) ==
    [simCall EXCEPT !.op = IF s # prevShapeRef THEN "change" ELSE "render",
                    !.changes = IF s # prevShapeRef THEN @ + 1 ELSE @,
                    !.renders = IF s # prevShapeRef THEN @ ELSE @ + 1,
                    !.changeTime = IF s # prevShapeRef THEN now ELSE @,
                    !.step = 0,
                    !.wasTransitioning = isTransitioning,
                    !.progressBefore = transition.progress,
                    !.targetsBefore = targetPositions,
                    !.shapeBefore = shape,
                    !.transitionBefore = transition,
                    !.ejectionBefore = ejectionForces,
                    !.particleBefore = particle,
                    !.positionBefore = currentPositions.at,
                    !.velocityBefore = velocities.at,
                    !.draws = draws,
                    !.reported = << >>]

\* A render with the props (shape s, metrics m): the useMemo hooks run, then
\* the shape effect, and the state it sets (setIsTransitioning(true)) is
\* rendered before the next step.  memoDraws is what Math.random() returns
\* for the hooks and the impulses, newDraws what it returns for the effect's
\* own call of generateGeometry.
Render(s, m, memoDraws, newDraws) ==
    /\ shape' = s
    /\ metrics' = m
    /\ particle' = UseMemo(FALSE, particle, NewParticle(particle.i, memoDraws))
    /\ currentPositions' = UseMemo(FALSE, currentPositions, ZeroArray(COUNT))
    /\ velocities' = UseMemo(FALSE, velocities, ZeroArray(COUNT))
    /\ IF s # prevShapeRef
       THEN /\ transition' = ShapeEffect(transition, now * 10, RenderTargets(s, memoDraws))
            /\ ejectionForces' = [ejectionForces EXCEPT !.at = EjectionForce(memoDraws)]
            /\ isTransitioning' = TRUE
            /\ targetPositions' =
                  [RenderTargets(s, memoDraws) EXCEPT
                      !.at = generateGeometry(s, PARTICLE_COUNT, particle.i, newDraws).at]
            /\ prevShapeRef' = s
       ELSE /\ targetPositions' = RenderTargets(s, memoDraws)
            /\ UNCHANGED <<transition, ejectionForces, isTransitioning, prevShapeRef>>
    /\ simCall' = Rendered(s, memoDraws)
    /\ UNCHANGED <<now, ext, ret, call, service, detection, smVars>>
    /\ UNCHANGED <<clockStart, scene>>

\* The owner selects another shape.
ShapeChange ==
    /\ simCall.changes < MaxChanges
    /\ \E s \in Shapes \ {shape}, memoDraws \in Draws, newDraws \in Draws :
          Render(s, metrics, memoDraws, newDraws)

SimNext == Frame \/ ShapeChange

SimSpec == SimInit /\ [][SimNext]_vars

(***************************************************************************)
(* The field under given metrics.  FieldSpec mounts the simulator with     *)
(* one of a wider choice of metrics vectors and runs it as SimSpec does.   *)
(***************************************************************************)
\* No hand, the energy still decaying.
FadingMetrics == getEmptyMetrics(SCALE \div 2)

\* A hand with openness, gripStrength and energy as given.
PoseMetrics(openness, gripStrength, energy) ==
    [RestMetrics EXCEPT !.openness = openness, !.gripStrength = gripStrength,
                        !.energy = energy]

\* What updateSimulation hands over while the right button is held and the
\* mouse moves fast: openness 0.3 and grip 0.9 give ring and pinky curls of
\* 1.06 and 1.15, and the unclamped mouse speed an expressiveness of 2.
SwipeMetrics ==
    [RestMetrics EXCEPT !.confidence = 9500, !.position = Vec(5000, 0, 0),
                        !.velocity = Vec(6 * SCALE, 0, 0), !.speed = SCALE,
                        !.openness = 3000, !.pinchPosition = Vec(5000, 0, 0),
                        !.fingerSpread = 1500, !.palmTilt = 1500,
                        !.indexCurl = 7000, !.middleCurl = 9700,
                        !.ringCurl = 10600, !.pinkyCurl = 11500,
                        !.pointDirection = Vec(5000, 0, 0 - SCALE),
                        !.gripStrength = 9000, !.energy = SCALE, !.tension = 4500,
                        !.expressiveness = 2 * SCALE, !.handSize = 1500]

\* A metrics vector with the openness at 3.
OverOpenMetrics == PoseMetrics(3 * SCALE, 0, 0)

FieldMetrics ==
    {getEmptyMetrics(0), FadingMetrics, FullMetrics,
     PoseMetrics(SCALE, 0, 0), PoseMetrics(0, SCALE, SCALE), PoseMetrics(SCALE, 0, SCALE),
     SwipeMetrics, OverOpenMetrics}

FieldInit ==
    /\ ext = NewExtractor
    /\ service = NewService
    /\ detection = NoDetection
    /\ ret = getEmptyMetrics(0)
    /\ call = NoCall
    /\ SmIdle
    /\ now = LoadTime
    /\ \E i \in {0, PARTICLE_COUNT}, rs \in Draws, m \in FieldMetrics :
          SimMounted(LoadTime, i, rs, rs, m)

FieldSpec == FieldInit /\ [][SimNext]_vars

\* state.clock.getElapsedTime() of the last frame.
FrameTime == (now - clockStart) * 10

\* The last step was a frame with no hand present.
NoHandFrame == simCall.op = "frame" /\ ~metrics.isPresent

\* C17: a frame with isPresent false integrates the particle towards its
\* (interpolated) shape target plus the breathing, no force term applied;
\* outside a transition that target is the shape target plus the breathing
\* and the lerp rests on the base lerp 0.03.
TheoremC17 ==
    NoHandFrame =>
        /\ simCall.target = simCall.breathed
        /\ velocities.at =
              Vec(FMul(FAdd(simCall.velocityBefore.x,
                            FMul(FSub(simCall.breathed.x, simCall.positionBefore.x),
                                 simCall.lerpFactor)), simCall.damping),
                  FMul(FAdd(simCall.velocityBefore.y,
                            FMul(FSub(simCall.breathed.y, simCall.positionBefore.y),
                                 simCall.lerpFactor)), simCall.damping),
                  FMul(FAdd(simCall.velocityBefore.z,
                            FMul(FSub(simCall.breathed.z, simCall.positionBefore.z),
                                 simCall.lerpFactor)), simCall.damping))
        /\ currentPositions.at =
              Vec(FAdd(simCall.positionBefore.x, velocities.at.x),
                  FAdd(simCall.positionBefore.y, velocities.at.y),
                  FAdd(simCall.positionBefore.z, velocities.at.z))
        /\ ~simCall.wasTransitioning =>
              /\ simCall.breathed =
                    Breathing(ReadPoint(targetPositions, particle.i), metrics,
                              FrameTime, particle.phase, particle.seed)
              /\ simCall.lerpFactor = FAdd(300, FScale(metrics.expressiveness, 3, 100))

\* C17's case: a frame with no hand and some energy left moves a particle
\* towards a target the breathing has shifted off the shape target.
WitnessC17 ==
    /\ NoHandFrame
    /\ metrics.energy > 0
    /\ particle.i < PARTICLE_COUNT
    /\ simCall.breathed # ReadPoint(targetPositions, particle.i)
    /\ currentPositions.at # simCall.positionBefore
    /\ simCall.lerpFactor = 300

\* A bounded scalar clamped to its declared range [0,1].
Clamp01(a) == FMin(SCALE, FMax(0, a))

\* C18: every frame computes the damping and, outside a transition, the
\* lerp factor from the metrics clamped to [0,1], and its damping is below 1.
CounterexampleC18 ==
    simCall.op = "frame" =>
        /\ simCall.damping =
              FSub(FSub(FAdd(9000, FScale(Clamp01(metrics.openness), 5, 100)),
                        FScale(Clamp01(metrics.gripStrength), 8, 100)),
                   FScale(Clamp01(metrics.energy), 5, 100))
        /\ ~simCall.wasTransitioning =>
              simCall.lerpFactor =
                 FAdd(IF metrics.isPresent THEN 600 ELSE 300,
                      FScale(Clamp01(metrics.expressiveness), 3, 100))
        /\ simCall.damping < SCALE

\* The damping a frame applies under the metrics m.
FrameDamping(m) ==
    PhysicsUpdate(Vec(0, 0, 0), Vec(0, 0, 0), Vec(0, 0, 0), m,
                  PhysicsParameters(m, FALSE, 0)).damping

\* The ends and the middle of [0,1].
UnitGrid == {0, SCALE \div 2, SCALE}

\* C20: for openness, gripStrength and energy within [0,1] the damping of a
\* frame is 0.9 + 0.05 * openness - 0.08 * gripStrength - 0.05 * energy,
\* above 0 and below 1: in the frame just run and, computed once at the
\* mount, at every corner and midpoint of the range.
TheoremC20 ==
    /\ (/\ simCall.op = "frame"
        /\ InUnit(metrics.openness) /\ InUnit(metrics.gripStrength)
        /\ InUnit(metrics.energy)) =>
           /\ simCall.damping =
                 9000 + (5 * metrics.openness - 8 * metrics.gripStrength
                         - 5 * metrics.energy) \div 100
           /\ simCall.damping > 0
           /\ simCall.damping < SCALE
    /\ simCall.op = "init" =>
          \A o \in UnitGrid, g \in UnitGrid, e \in UnitGrid :
             /\ FrameDamping(PoseMetrics(o, g, e))
                   = 9000 + (5 * o - 8 * g - 5 * e) \div 100
             /\ FrameDamping(PoseMetrics(o, g, e)) >= 7700
             /\ FrameDamping(PoseMetrics(o, g, e)) <= 9500

\* C20's case: a frame at the largest damping the range allows (hand fully
\* open, no grip, no energy), applied to a moving particle.
WitnessC20 ==
    /\ simCall.op = "frame"
    /\ metrics.openness = SCALE /\ metrics.gripStrength = 0 /\ metrics.energy = 0
    /\ simCall.damping = 9500
    /\ velocities.at # Vec(0, 0, 0)

\* The components of the followed particle's position and velocity.
ParticleNumbers ==
    {currentPositions.at.x, currentPositions.at.y, currentPositions.at.z,
     velocities.at.x, velocities.at.y, velocities.at.z}

\* A frame ran in a transition whose shape change was at least the
\* transition duration before it.
FrameAfterDuration ==
    /\ simCall.op = "frame"
    /\ simCall.wasTransitioning
    /\ (now - simCall.changeTime) * 10 >= TRANSITION_DURATION

\* C1: a frame update that runs the transition duration or more after the
\* shape change sets the progress to exactly 1 and returns the simulator to
\* Idle (isTransitioning false, the snapshot cleared).
CounterexampleC1 ==
    FrameAfterDuration =>
        /\ transition.progress = SCALE
        /\ ~isTransitioning
        /\ transition.previousTargets.isNull

\* C2: in every frame update run while Transitioning, the progress stored
\* and reported lies within [0, 1] and is not below the progress before.
CounterexampleC2 ==
    (simCall.op = "frame" /\ simCall.wasTransitioning) =>
        /\ transition.progress >= 0 /\ transition.progress <= SCALE
        /\ simCall.reported = <<transition.progress>>
        /\ transition.progress >= simCall.progressBefore

\* C3: the snapshot stored on a shape change is a copy of the target array
\* in use before the change.
CounterexampleC3 ==
    simCall.op = "change" =>
        /\ ~transition.previousTargets.isNull
        /\ transition.previousTargets.array = simCall.targetsBefore

\* The bound on the magnitude of a particle's position and velocity.
SceneBound == 1000 * SCALE

\* C4: every position and velocity component of every particle index
\* 0..COUNT-1 is finite and stays below a fixed bound.
CounterexampleC4 ==
    \A c \in ParticleNumbers : IsFinite(c) /\ Abs(c) < SceneBound

(***************************************************************************)
(* Renders.  StageSpec mounts the simulator and then runs frames, shape    *)
(* changes (also while a transition is in progress) and renders that       *)
(* leave the shape as it is and bring other metrics.                       *)
(***************************************************************************)
MaxStageFrames == 2
MaxStageChanges == 2
MaxRenders == 1

\* Half the transition and the whole transition, in ms.
StageSteps == {TRANSITION_DURATION \div 20, TRANSITION_DURATION \div 10}

StageDraw == <<1000, 9000, 3000, 7000, 2000, 8000, 4000>>

StageShapes == {"Galaxy", "Sphere", "Heart"}

StageInit ==
    /\ ext = NewExtractor
    /\ service = NewService
    /\ detection = NoDetection
    /\ ret = getEmptyMetrics(0)
    /\ call = NoCall
    /\ SmIdle
    /\ \E start \in ClockStarts :
          /\ now = start
          /\ SimMounted(start, 0, StageDraw, StageDraw, RestMetrics)

StageFrame ==
    /\ simCall.frames < MaxStageFrames
    /\ \E d \in StageSteps : DoFrame(d, StageDraw)

StageChange ==
    /\ simCall.changes < MaxStageChanges
    /\ \E s \in StageShapes \ {shape}, draws \in Draws :
          Render(s, metrics, draws, draws)

\* A render with the shape unchanged: the metrics or the colour changed, or
\* the owner selected the current shape again.
StageRender ==
    /\ simCall.renders < MaxRenders
    /\ \E m \in MetricsChoices, draws \in Draws : Render(shape, m, draws, draws)

StageNext == StageFrame \/ StageChange \/ StageRender

StageSpec == StageInit /\ [][StageNext]_vars

\* C21: the simulator enters Transitioning exactly on a render whose shape
\* differs from the last applied one; a render with the shape unchanged
\* leaves progress, start time, snapshot, flash (the transition state), the
\* ejection impulses, the targets and the mode as they were, and a frame
\* never enters Transitioning.
TheoremC21 ==
    /\ simCall.op = "render" =>
          /\ shape = simCall.shapeBefore
          /\ transition = simCall.transitionBefore
          /\ ejectionForces = simCall.ejectionBefore
          /\ targetPositions = simCall.targetsBefore
          /\ isTransitioning = simCall.wasTransitioning
    /\ simCall.op = "change" => shape # simCall.shapeBefore /\ isTransitioning
    /\ simCall.op = "frame" => (isTransitioning => simCall.wasTransitioning)

\* C21's case: a render with the shape unchanged in the middle of a
\* transition, and one while Idle after a transition.
WitnessC21 ==
    /\ simCall.op = "render"
    /\ isTransitioning
    /\ transition.progress > 0 /\ transition.progress < SCALE
    /\ metrics # RestMetrics

\* C22: every shape change, also one in a running transition, sets the
\* progress to 0, the start time to the time of the change and the flash to
\* 1, draws the ejection impulse anew and makes the new shape the last
\* applied one; a frame less than the transition duration after the last
\* change does not end the transition.
TheoremC22 ==
    /\ simCall.op = "change" =>
          /\ transition.progress = 0
          /\ transition.startTime = now * 10
          /\ simCall.changeTime = now
          /\ transition.flashIntensity = SCALE
          /\ ejectionForces.at = EjectionForce(simCall.draws)
          /\ prevShapeRef = shape /\ shape # simCall.shapeBefore
          /\ isTransitioning
    /\ (/\ simCall.op = "frame" /\ simCall.wasTransitioning
        /\ (now - simCall.changeTime) * 10 < TRANSITION_DURATION) =>
          /\ isTransitioning
          /\ transition.progress < SCALE
          /\ ~transition.previousTargets.isNull

\* C22's case: a shape change in a transition already under way, with
\* another impulse than the one before.
WitnessC22 ==
    /\ simCall.op = "change"
    /\ simCall.wasTransitioning
    /\ simCall.progressBefore > 0
    /\ simCall.changes = 2
    /\ ejectionForces # simCall.ejectionBefore

\* C26: no step changes a particle's phase or seed, and a shape change
\* leaves the particle's position and velocity as they are.
TheoremC26 ==
    [][ /\ particle' = particle
        /\ simCall'.op \in {"change", "render"} =>
              currentPositions' = currentPositions /\ velocities' = velocities ]_vars

\* C26's case: a shape change after frames have moved the particle.
WitnessC26 ==
    /\ simCall.op = "change"
    /\ simCall.frames > 0
    /\ currentPositions.at # particle.start
    /\ velocities.at # Vec(0, 0, 0)
    /\ particle.i = 0 /\ particle.phase = FScale(StageDraw[1], TwoPi, SCALE)

\* The array holds a defined point for every particle of the simulator, the
\* followed one among them.
HoldsAllTargets(array) ==
    /\ array.length >= COUNT * 3
    /\ FiniteVec(ReadPoint(array, particle.i))

\* C27: in every frame update the target array, and while Transitioning the
\* snapshot, hold a defined target for every particle index below COUNT.
CounterexampleC27 ==
    simCall.op = "frame" =>
        /\ HoldsAllTargets(simCall.targetsBefore)
        /\ ~transition.previousTargets.isNull =>
              HoldsAllTargets(transition.previousTargets.array)

(***************************************************************************)
(* The force terms.  ForceSpec mounts the simulator with a hand whose      *)
(* metrics switch every term on, sit exactly on the thresholds of the      *)
(* gated terms, or lie just above them, with the followed particle near    *)
(* the hand or far from it, and runs frames.                               *)
(***************************************************************************)
\* A hand near the origin with every force term switched on.
ActiveMetrics ==
    [FullMetrics EXCEPT !.position = Vec(2000, 0 - 1000, 1000),
                        !.pinchPosition = Vec(1000, 1000, 0),
                        !.velocity = Vec(SCALE, 0 - SCALE, 0),
                        !.openness = 5000, !.tension = 8000,
                        !.palmNormal = Vec(6000, 8000, 0), !.palmTilt = 6000,
                        !.pointDirection = Vec(6000, 0, 0 - 8000)]

\* The same hand with every gated term's trigger on its threshold.
ThresholdMetrics ==
    [ActiveMetrics EXCEPT !.pinchStrength = 2000, !.gripStrength = 1000,
                          !.fingerSpread = 800, !.energy = 2000,
                          !.pointStrength = 3000, !.speed = 1000,
                          !.tension = 5000]

\* The same hand with every trigger one unit above its threshold.
AboveMetrics ==
    [ActiveMetrics EXCEPT !.pinchStrength = 2001, !.gripStrength = 1001,
                          !.fingerSpread = 802, !.energy = 2000,
                          !.pointStrength = 3001, !.speed = 1001,
                          !.tension = 5001]

ForceMetrics == {ActiveMetrics, ThresholdMetrics, AboveMetrics, RestMetrics}

\* Draws that put the followed particle near the hand or far from it, with
\* seeds other than 0.
ForceDraws == {<<1000, 9000, 3000, 7000, 5100, 4900, 5000>>, StageDraw}

ForceInit ==
    /\ ext = NewExtractor
    /\ service = NewService
    /\ detection = NoDetection
    /\ ret = getEmptyMetrics(0)
    /\ call = NoCall
    /\ SmIdle
    /\ now = LoadTime
    /\ \E i \in {0, 150}, rs \in ForceDraws, m \in ForceMetrics :
          SimMounted(LoadTime, i, rs, rs, m)

ForceFrame ==
    /\ simCall.frames < MaxFrames
    /\ \E d \in FrameSteps : DoFrame(d, StageDraw)

ForceSpec == ForceInit /\ [][ForceFrame]_vars

\* The targets t0 .. t9 of a particle: t0 as the breathing left it, and
\* after each of the nine terms in turn.
TermTrace(t0, i, p, distToHand, time, m, pp, phase, seed, rnd) ==
    LET t1 == Expansion(t0, pp)
        t2 == PinchAttraction(t1, p, m, pp, time, phase)
        t3 == Vortex(t2, distToHand, m, pp, time, phase)
        t4 == Turbulence(t3, m, pp, time, phase, seed)
        t5 == DirectionalFlow(t4, pp)
        t6 == PointingBeam(t5, distToHand, m, pp, i, seed)
        t7 == FingerEffects(t6, m, time, phase)
        t8 == VelocityTrails(t7, distToHand, m)
        t9 == TensionJitter(t8, m, rnd)
    IN <<t0, t1, t2, t3, t4, t5, t6, t7, t8, t9>>

\* The distance from the followed particle to the hand before the frame.
FrameDistToHand(pp) ==
    Hypot3(FSub(simCall.positionBefore.x, pp.hand.x),
           FSub(simCall.positionBefore.y, pp.hand.y),
           FSub(simCall.positionBefore.z, pp.hand.z))

\* The targets of the followed particle through the last frame.
FrameTrace(pp) ==
    TermTrace(simCall.breathed, particle.i, simCall.positionBefore,
              FrameDistToHand(pp), FrameTime, metrics, pp,
              particle.phase, particle.seed, StageDraw)

FrameTargets == FrameTrace(PhysicsParameters(metrics, simCall.wasTransitioning, 0))

\* The last step was a frame with a hand present.
HandFrame == simCall.op = "frame" /\ metrics.isPresent

\* C23: with a hand present the target the spring pulls towards is the
\* breathed target taken through expansion, pinch attraction, vortex,
\* turbulence, drift, beam, finger wave, trail and jitter in this order,
\* each applied to the result of the one before, and the velocity and the
\* position are integrated from that final target.
TheoremC23 ==
    HandFrame =>
        /\ simCall.target = FrameTargets[10]
        /\ velocities.at =
              Vec(FMul(FAdd(simCall.velocityBefore.x,
                            FMul(FSub(FrameTargets[10].x, simCall.positionBefore.x),
                                 simCall.lerpFactor)), simCall.damping),
                  FMul(FAdd(simCall.velocityBefore.y,
                            FMul(FSub(FrameTargets[10].y, simCall.positionBefore.y),
                                 simCall.lerpFactor)), simCall.damping),
                  FMul(FAdd(simCall.velocityBefore.z,
                            FMul(FSub(FrameTargets[10].z, simCall.positionBefore.z),
                                 simCall.lerpFactor)), simCall.damping))
        /\ currentPositions.at =
              Vec(FAdd(simCall.positionBefore.x, velocities.at.x),
                  FAdd(simCall.positionBefore.y, velocities.at.y),
                  FAdd(simCall.positionBefore.z, velocities.at.z))

\* C23's case: a frame in which every one of the nine terms moved the
\* target.
WitnessC23 ==
    /\ HandFrame
    /\ metrics = ActiveMetrics
    /\ \A k \in 1..9 : FrameTargets[k + 1] # FrameTargets[k]
    /\ simCall.target = FrameTargets[10]

\* C24: with a hand present a gated term whose trigger is at or below its
\* threshold hands on the target exactly as it got it.
TheoremC24 ==
    HandFrame =>
        /\ metrics.pinchStrength <= 2000 => FrameTargets[3] = FrameTargets[2]
        /\ metrics.gripStrength <= 1000 => FrameTargets[4] = FrameTargets[3]
        /\ (metrics.fingerSpread * 5 + metrics.energy * 3 <= 10000) =>
              FrameTargets[5] = FrameTargets[4]
        /\ metrics.pointStrength <= 3000 => FrameTargets[7] = FrameTargets[6]
        /\ metrics.speed <= 1000 => FrameTargets[9] = FrameTargets[8]
        /\ metrics.tension <= 5000 => FrameTargets[10] = FrameTargets[9]

\* C24's case: a frame with every trigger exactly on its threshold, near
\* the hand, in which the ungated terms did move the target.
WitnessC24 ==
    /\ HandFrame
    /\ metrics = ThresholdMetrics
    /\ FLt(FrameDistToHand(PhysicsParameters(metrics, FALSE, 0)), 3 * SCALE)
    /\ simCall.target # simCall.breathed
    /\ simCall.target = FrameTargets[8]

(***************************************************************************)
(* The gesture classifier.  GestureSpec calls detectGesture on every       *)
(* combination of the five finger states and the pinch flag.               *)
(***************************************************************************)
MaxDetections == 2

FingerStates == [1..5 -> BOOLEAN]

Detect ==
    /\ detection.n < MaxDetections
    /\ \E fingers \in FingerStates, isPinch \in BOOLEAN :
          \E r \in {detectGesture(fingers, isPinch)} :
             detection' = [n |-> detection.n + 1, fingers |-> fingers,
                           isPinch |-> isPinch, gesture |-> r.gesture,
                           confidence |-> r.confidence]
    /\ UNCHANGED <<now, ext, ret, call, service, smVars, simVars>>

GestureSpec == ExtInit /\ [][Detect]_vars

\* The gesture documented for the finger pattern (thumb, index, middle,
\* ring, pinky), "" where none is documented.
Documented(f) ==
    CASE f = <<TRUE, TRUE, TRUE, TRUE, TRUE>> -> "open_palm"
      [] f = <<FALSE, FALSE, FALSE, FALSE, FALSE>> -> "fist"
      [] f = <<FALSE, TRUE, FALSE, FALSE, FALSE>> -> "point"
      [] f = <<FALSE, TRUE, TRUE, FALSE, FALSE>> -> "peace"
      [] f = <<FALSE, TRUE, FALSE, FALSE, TRUE>> -> "rock"
      [] f = <<TRUE, FALSE, FALSE, FALSE, FALSE>> -> "thumbs_up"
      [] f = <<TRUE, TRUE, FALSE, FALSE, TRUE>> -> "spiderman"
      [] OTHER -> ""

\* C30: for every pinch flag, a documented finger pattern gets its
\* documented gesture, and every input gets one gesture of GestureType.
CounterexampleC30 ==
    detection.n > 0 =>
        /\ detection.gesture \in GestureTypes
        /\ Documented(detection.fingers) # "" =>
              detection.gesture = Documented(detection.fingers)

=============================================================================
